---- MODULE Spec2Model ----
(***************************************************************************)
(* Calendefi / SuiCalen: the autopay escrow ledger                         *)
(* (contracts/autopay/sources/autopay.move) and the relayer's atomic       *)
(* yield-settlement composer (services/execution/atomicYieldExecution).    *)
(*                                                                         *)
(* Every ledger entry function is one atomic transaction: Sui sequences    *)
(* transactions on shared objects, and a Move abort reverts every effect   *)
(* of the transaction.  An entry function is therefore an operator from    *)
(* the current ledger state to an outcome (status, abort code, new ledger  *)
(* state), and the action that submits the call installs that outcome.     *)
(***************************************************************************)
EXTENDS Integers, Sequences, FiniteSets, TLC

VARIABLES
    tasks,      \* live ScheduledTask shared objects, keyed by object id
    registry,   \* the TaskRegistry shared object
    capOwner,   \* address owning the AdminCap object
    clock,      \* sui::clock timestamp_ms
    nextId,     \* next fresh object id handed out by object::new
    events,     \* event log (event::emit), oldest first
    transfers,  \* coins delivered by transfer::public_transfer, oldest first
    deposits,   \* value of the payment coin consumed by create_task, per task id
    lastCall,   \* the transaction applied by the last step, with its outcome
    adminSender,\* the sender of the last step's transaction when it called an admin function
    ypc,        \* executeYieldWithdrawal: position of the one invocation
    yStrategy,  \* the YieldStrategyDocument it was called with
    yEnv,       \* network and submission mode read from the environment
    yTx,        \* the Transaction under construction
    yWithdrawn, \* withdrawRes.withdrawnCoin
    yCoins,     \* coinsToTransfer
    ySteps,     \* what each stage of the build did
    yError,     \* the error the invocation threw, "" if none
    ySubmitted, \* transactions handed to the RPC client, with their signatures
    yChain,     \* the position, the target's and the relayer's coins on the ledger
    rqQueue,    \* RetryQueue.queue: task id -> timer handle, 0 when the key is absent
    rqTimers,   \* timers the runtime holds pending, as [id, key]
    rqNextTimer,\* the next handle setTimeout returns
    rqFired,    \* handles whose callback has run
    rqCleared,  \* handles given to clearTimeout
    rqLast,     \* the last RetryQueue operation
    cfgEnv,     \* process.env.GAS_BUDGET_LIMIT
    cfgStarted, \* the process has started with that environment
    cfgLimit,   \* relayer.ts: the module constant GAS_BUDGET_LIMIT
    cfgLoaded,  \* relayer.ts has been loaded
    cfgBudget,  \* atomicYieldExecution.getValidatedGasBudget(): the last result
    cfgRelayerBudget, \* relayer.ts getValidatedGasBudget(): the last result
    scPc,       \* scanAndExecute: between its two RPC reads, or idle
    scIds,      \* task ids taken from the fetched TaskCreated events
    scLast,     \* the scan that has just completed: what it read and what it yielded
    clMessage,  \* String(err) of the failure being handled
    clKind,     \* what classifyError returned for it, "none" before the call
    spLoaded,   \* relayer.ts has loaded its keypairs and its gas limit
    spKeys,     \* relayer.ts: relayerKeypair and gasStationKeypair
    spLimit,    \* relayer.ts: GAS_BUDGET_LIMIT as executeTask sees it
    spSubmitted,\* the last transaction executeTask handed to the RPC client
    exRunning,  \* OptimisticExecutor.running
    exReady,    \* what initialize() left in client, packageId, registryId and keypair
    exLoops,    \* one entry per activation of loop(): where it stands
    exCall,     \* the last call made on the executor object
    exPc,       \* scanAndExecute of the running activation: its next await
    exIds,      \* taskIds
    exQueue,    \* the due tasks the for loop has still to submit
    exLast      \* the last submission of the for loop and how it ended

ledger == <<tasks, registry, capOwner, nextId, events, transfers, deposits>>
ledgerVars ==
    <<tasks, registry, capOwner, clock, nextId, events, transfers, deposits, lastCall,
      adminSender>>
composerVars ==
    <<ypc, yStrategy, yEnv, yTx, yWithdrawn, yCoins, ySteps, yError, ySubmitted, yChain>>
\* the state outside the ledger, and the state outside the composer
retryVars == <<rqQueue, rqTimers, rqNextTimer, rqFired, rqCleared, rqLast>>
configVars == <<cfgEnv, cfgStarted, cfgLimit, cfgLoaded, cfgBudget, cfgRelayerBudget>>
scanVars == <<scPc, scIds, scLast>>
classifyVars == <<clMessage, clKind>>
sponsorVars == <<spLoaded, spKeys, spLimit, spSubmitted>>
loopVars == <<exRunning, exReady, exLoops, exCall>>
executorVars == <<exPc, exIds, exQueue, exLast>>
notLedger == <<composerVars, retryVars, configVars, scanVars, classifyVars, sponsorVars, loopVars, executorVars>>
notComposer == <<ledgerVars, retryVars, configVars, scanVars, classifyVars, sponsorVars, loopVars, executorVars>>
notRetry == <<ledgerVars, composerVars, configVars, scanVars, classifyVars, sponsorVars, loopVars, executorVars>>
notConfig == <<ledgerVars, composerVars, retryVars, scanVars, classifyVars, sponsorVars, loopVars, executorVars>>
notScan == <<composerVars, retryVars, configVars, classifyVars, sponsorVars, loopVars, executorVars>>
notClassify == <<ledgerVars, composerVars, retryVars, configVars, scanVars, sponsorVars, loopVars, executorVars>>
\* executeTask submits to the ledger: its actions state the ledger change themselves
notSponsor == <<composerVars, retryVars, configVars, scanVars, classifyVars, loopVars, executorVars>>
notLoop ==
    <<ledgerVars, composerVars, retryVars, configVars, scanVars, classifyVars, sponsorVars, executorVars>>
\* the executor's for loop submits to the ledger and drives its own activation
notExecutor ==
    <<composerVars, retryVars, configVars, scanVars, classifyVars, sponsorVars>>
vars == <<ledgerVars, composerVars, retryVars, configVars, scanVars, classifyVars, sponsorVars, loopVars, executorVars>>

----------------------------------------------------------------------------
(* Bounds of the model *)
MaxTasks == 1
MaxClock == 2
MaxTimers == 4
MaxScanTasks == 1
MaxLoops == 3
MaxBacklog == 51

(* Error constants, autopay.move:13-21 *)
ENotReadyYet == 1
EUnauthorized == 2
EInsufficientFunds == 3
EInvalidExecutionTime == 4
EContractPaused == 5
EInvalidStatus == 6
EFeeTooLow == 7

(* Task status constants, autopay.move:24-27 *)
STATUS_PENDING == 0
STATUS_EXECUTED == 1
STATUS_CANCELLED == 2
STATUS_FAILED == 3

(* Default minimum relayer fee set by init, autopay.move:123 *)
DefaultMinRelayerFee == 1000000

(* Inputs of the transactions *)
Deployer == "admin"
Addr == {"alice", "bob", "relayer"}
Senders == {"alice"}
Recipients == {"bob"}
PaymentValues == {1000000, 3000000}
FeeValues == {500000, 1000000}
NewFeeValues == {500000}
Times == 0 .. (MaxClock + 1)
EmptyBytes == << >>

Executors == {"relayer", "bob"}
Reschedulers == {"alice", "relayer", "admin"}

NoSender == ""
NoCall == [fn |-> "none", task |-> 0, status |-> "none", code |-> 0]

Call(fn, task, out) == [fn |-> fn, task |-> task, status |-> out.status, code |-> out.code]

----------------------------------------------------------------------------
(* Outcomes of a transaction *)

\* assert! failure: the transaction aborts with the code and leaves the ledger as it was
Abort(code) ==
    [status |-> "abort", code |-> code, tasks |-> tasks, registry |-> registry,
     events |-> events, transfers |-> transfers, deposits |-> deposits, nextId |-> nextId]

\* a by-value or by-reference ScheduledTask input that no longer exists: the
\* transaction fails at input resolution and the entry function never runs
Deleted ==
    [status |-> "deleted", code |-> 0, tasks |-> tasks, registry |-> registry,
     events |-> events, transfers |-> transfers, deposits |-> deposits, nextId |-> nextId]

Remove(f, id) == [k \in (DOMAIN f) \ {id} |-> f[k]]

----------------------------------------------------------------------------
(* Init function *)
InitLedger ==
    /\ tasks = << >>
    /\ registry = [total_tasks_created |-> 0, total_tasks_executed |-> 0,
                   total_tasks_cancelled |-> 0, total_tasks_failed |-> 0,
                   total_volume |-> 0, total_fees_paid |-> 0,
                   min_relayer_fee |-> DefaultMinRelayerFee,
                   is_paused |-> FALSE, admin |-> Deployer]
    /\ capOwner = Deployer
    /\ clock = 0
    /\ nextId = 1
    /\ events = << >>
    /\ transfers = << >>
    /\ deposits = << >>
    /\ lastCall = NoCall
    /\ adminSender = NoSender

----------------------------------------------------------------------------
(* Core functions *)

\* autopay.move:159-196: split the fee, lock both balances in the new shared task
create_task_effects(payment, recipient, execute_at, fee_amount, metadata, sender) ==
    LET amount == payment - fee_amount
        id == nextId
        task == [sender |-> sender, recipient |-> recipient, balance |-> amount,
                 execute_at |-> execute_at, relayer_fee |-> fee_amount,
                 status |-> STATUS_PENDING, attempt_count |-> 0,
                 last_failure_reason |-> EmptyBytes, created_at |-> clock,
                 metadata |-> metadata]
    IN  [status |-> "success", code |-> 0,
         tasks |-> (id :> task) @@ tasks,
         registry |-> [registry EXCEPT
                         !.total_tasks_created = @ + 1,
                         !.total_volume = @ + amount,
                         !.total_fees_paid = @ + fee_amount],
         events |-> Append(events, [type |-> "TaskCreated", task_id |-> id,
                                    who |-> sender,
                                    amount |-> amount, fee |-> 0]),
         transfers |-> transfers,
         deposits |-> (id :> payment) @@ deposits,
         nextId |-> nextId + 1]

\* mutant: the fee is not split off the payment coin before it is locked
create_task_FeeNotSplit(payment, recipient, execute_at, fee_amount, metadata, sender) ==
    LET out == create_task_effects(payment, recipient, execute_at, fee_amount, metadata, sender)
    IN  IF registry.is_paused THEN Abort(EContractPaused)
        ELSE IF ~(execute_at > clock) THEN Abort(EInvalidExecutionTime)
        ELSE IF ~(fee_amount >= registry.min_relayer_fee) THEN Abort(EFeeTooLow)
        ELSE IF ~(payment > fee_amount) THEN Abort(EInsufficientFunds)
        ELSE [out EXCEPT !.tasks[nextId].balance = payment]

\* mutant: total_value >= fee_amount, which lets a payment equal to the fee through
create_task_AllowsZeroPrincipal(payment, recipient, execute_at, fee_amount, metadata, sender) ==
    IF registry.is_paused THEN Abort(EContractPaused)
    ELSE IF ~(execute_at > clock) THEN Abort(EInvalidExecutionTime)
    ELSE IF ~(fee_amount >= registry.min_relayer_fee) THEN Abort(EFeeTooLow)
    ELSE IF ~(payment >= fee_amount) THEN Abort(EInsufficientFunds)
    ELSE create_task_effects(payment, recipient, execute_at, fee_amount, metadata, sender)

create_task(payment, recipient, execute_at, fee_amount, metadata, sender) ==
    IF registry.is_paused THEN Abort(EContractPaused)
    ELSE IF ~(execute_at > clock) THEN Abort(EInvalidExecutionTime)
    ELSE IF ~(fee_amount >= registry.min_relayer_fee) THEN Abort(EFeeTooLow)
    ELSE IF ~(payment > fee_amount) THEN Abort(EInsufficientFunds)
    ELSE create_task_effects(payment, recipient, execute_at, fee_amount, metadata, sender)

\* autopay.move:214-253: pay the principal to the recipient and the fee to the
\* transaction sender, count the execution, emit TaskExecuted, delete the task
execute_task_effects(id, sender) ==
    LET task == tasks[id]
        amount == task.balance
        fee_amount == task.relayer_fee
    IN  [status |-> "success", code |-> 0,
         tasks |-> Remove(tasks, id),
         registry |-> [registry EXCEPT !.total_tasks_executed = @ + 1],
         events |-> Append(events, [type |-> "TaskExecuted", task_id |-> id,
                                    who |-> sender,
                                    amount |-> amount, fee |-> fee_amount]),
         transfers |-> transfers \o
                       << [task |-> id, to |-> task.recipient, value |-> amount],
                          [task |-> id, to |-> sender, value |-> fee_amount] >>,
         deposits |-> deposits,
         nextId |-> nextId]

\* mutant: the task is paid out but stays a live Pending object
execute_task_KeepsTask(id, sender) ==
    IF id \notin DOMAIN tasks THEN Deleted
    ELSE IF registry.is_paused THEN Abort(EContractPaused)
    ELSE IF ~(tasks[id].status = STATUS_PENDING) THEN Abort(EInvalidStatus)
    ELSE IF ~(clock >= tasks[id].execute_at) THEN Abort(ENotReadyYet)
    ELSE [execute_task_effects(id, sender) EXCEPT !.tasks = tasks]

\* mutant: the relayer fee goes to the recipient instead of the transaction sender
execute_task_FeeToRecipient(id, sender) ==
    IF id \notin DOMAIN tasks THEN Deleted
    ELSE IF registry.is_paused THEN Abort(EContractPaused)
    ELSE IF ~(tasks[id].status = STATUS_PENDING) THEN Abort(EInvalidStatus)
    ELSE IF ~(clock >= tasks[id].execute_at) THEN Abort(ENotReadyYet)
    ELSE execute_task_effects(id, tasks[id].recipient)

\* mutant: the time check comes before the status check
execute_task_TimeBeforeStatus(id, sender) ==
    IF id \notin DOMAIN tasks THEN Deleted
    ELSE IF registry.is_paused THEN Abort(EContractPaused)
    ELSE IF ~(clock >= tasks[id].execute_at) THEN Abort(ENotReadyYet)
    ELSE IF ~(tasks[id].status = STATUS_PENDING) THEN Abort(EInvalidStatus)
    ELSE execute_task_effects(id, sender)

\* mutant: the paused check is missing
execute_task_NoPauseCheck(id, sender) ==
    IF id \notin DOMAIN tasks THEN Deleted
    ELSE IF ~(tasks[id].status = STATUS_PENDING) THEN Abort(EInvalidStatus)
    ELSE IF ~(clock >= tasks[id].execute_at) THEN Abort(ENotReadyYet)
    ELSE execute_task_effects(id, sender)

execute_task(id, sender) ==
    IF id \notin DOMAIN tasks THEN Deleted
    ELSE IF registry.is_paused THEN Abort(EContractPaused)
    ELSE IF ~(tasks[id].status = STATUS_PENDING) THEN Abort(EInvalidStatus)
    ELSE IF ~(clock >= tasks[id].execute_at) THEN Abort(ENotReadyYet)
    ELSE execute_task_effects(id, sender)

\* autopay.move:265-299: join fee and principal, refund the sender, count the
\* cancellation, emit TaskCancelled, delete the task
cancel_task_effects(id, sender) ==
    LET task == tasks[id]
    IN  [status |-> "success", code |-> 0,
         tasks |-> Remove(tasks, id),
         registry |-> [registry EXCEPT !.total_tasks_cancelled = @ + 1],
         events |-> Append(events, [type |-> "TaskCancelled", task_id |-> id,
                                    who |-> task.sender,
                                    amount |-> 0, fee |-> 0]),
         transfers |-> Append(transfers,
                              [task |-> id, to |-> task.sender,
                               value |-> task.balance + task.relayer_fee]),
         deposits |-> deposits,
         nextId |-> nextId]

\* mutant: the sender check is missing
cancel_task_NoSenderCheck(id, sender) ==
    IF id \notin DOMAIN tasks THEN Deleted
    ELSE IF ~(tasks[id].status = STATUS_PENDING) THEN Abort(EInvalidStatus)
    ELSE cancel_task_effects(id, sender)

\* mutant: the cancelled task is emptied and marked Cancelled but stays a live object
cancel_task_KeepsObject(id, sender) ==
    IF id \notin DOMAIN tasks THEN Deleted
    ELSE IF ~(sender = tasks[id].sender) THEN Abort(EUnauthorized)
    ELSE IF ~(tasks[id].status = STATUS_PENDING) THEN Abort(EInvalidStatus)
    ELSE [cancel_task_effects(id, sender) EXCEPT
            !.tasks = [tasks EXCEPT ![id].status = STATUS_CANCELLED,
                                    ![id].balance = 0, ![id].relayer_fee = 0]]

\* mutant: a cancellation takes the refunded principal back out of total_volume
cancel_task_TakesBackVolume(id, sender) ==
    IF id \notin DOMAIN tasks THEN Deleted
    ELSE IF ~(sender = tasks[id].sender) THEN Abort(EUnauthorized)
    ELSE IF ~(tasks[id].status = STATUS_PENDING) THEN Abort(EInvalidStatus)
    ELSE [cancel_task_effects(id, sender) EXCEPT
            !.registry = [registry EXCEPT !.total_tasks_cancelled = @ + 1,
                                          !.total_volume = @ - tasks[id].balance]]

\* mutant: a paused registry refuses cancellations as it refuses executions
cancel_task_ChecksPause(id, sender) ==
    IF id \notin DOMAIN tasks THEN Deleted
    ELSE IF registry.is_paused THEN Abort(EContractPaused)
    ELSE IF ~(sender = tasks[id].sender) THEN Abort(EUnauthorized)
    ELSE IF ~(tasks[id].status = STATUS_PENDING) THEN Abort(EInvalidStatus)
    ELSE cancel_task_effects(id, sender)

cancel_task(id, sender) ==
    IF id \notin DOMAIN tasks THEN Deleted
    ELSE IF ~(sender = tasks[id].sender) THEN Abort(EUnauthorized)
    ELSE IF ~(tasks[id].status = STATUS_PENDING) THEN Abort(EInvalidStatus)
    ELSE cancel_task_effects(id, sender)

\* mutant: the new time is not compared with the clock
reschedule_task_NoTimeCheck(id, new_execute_at, sender) ==
    IF id \notin DOMAIN tasks THEN Deleted
    ELSE IF registry.is_paused THEN Abort(EContractPaused)
    ELSE IF ~(sender = tasks[id].sender \/ sender = registry.admin) THEN Abort(EUnauthorized)
    ELSE
        [status |-> "success", code |-> 0,
         tasks |-> [tasks EXCEPT ![id].execute_at = new_execute_at,
                                 ![id].last_failure_reason = EmptyBytes],
         registry |-> registry, events |-> events, transfers |-> transfers,
         deposits |-> deposits, nextId |-> nextId]

reschedule_task(id, new_execute_at, sender) ==
    IF id \notin DOMAIN tasks THEN Deleted
    ELSE IF registry.is_paused THEN Abort(EContractPaused)
    ELSE IF ~(sender = tasks[id].sender \/ sender = registry.admin) THEN Abort(EUnauthorized)
    ELSE IF ~(new_execute_at > clock) THEN Abort(EInvalidExecutionTime)
    ELSE
        [status |-> "success", code |-> 0,
         tasks |-> [tasks EXCEPT ![id].execute_at = new_execute_at,
                                 ![id].last_failure_reason = EmptyBytes],
         registry |-> registry, events |-> events, transfers |-> transfers,
         deposits |-> deposits, nextId |-> nextId]

\* mutant: marking a task failed pays the caller the fee and the task keeps it too
mark_task_failed_PaysCaller(id, sender) ==
    IF id \notin DOMAIN tasks THEN Deleted
    ELSE IF ~(tasks[id].status = STATUS_PENDING) THEN Abort(EInvalidStatus)
    ELSE
        [status |-> "success", code |-> 0,
         tasks |-> [tasks EXCEPT ![id].status = STATUS_FAILED,
                                 ![id].attempt_count = @ + 1,
                                 ![id].last_failure_reason = EmptyBytes],
         registry |-> [registry EXCEPT !.total_tasks_failed = @ + 1],
         events |-> Append(events, [type |-> "TaskFailed", task_id |-> id,
                                    who |-> sender,
                                    amount |-> 0, fee |-> 0]),
         transfers |-> Append(transfers,
                              [task |-> id, to |-> sender, value |-> tasks[id].relayer_fee]),
         deposits |-> deposits, nextId |-> nextId]

mark_task_failed(id, sender) ==
    IF id \notin DOMAIN tasks THEN Deleted
    ELSE IF ~(tasks[id].status = STATUS_PENDING) THEN Abort(EInvalidStatus)
    ELSE
        [status |-> "success", code |-> 0,
         tasks |-> [tasks EXCEPT ![id].status = STATUS_FAILED,
                                 ![id].attempt_count = @ + 1,
                                 ![id].last_failure_reason = EmptyBytes],
         registry |-> [registry EXCEPT !.total_tasks_failed = @ + 1],
         events |-> Append(events, [type |-> "TaskFailed", task_id |-> id,
                                    who |-> sender,
                                    amount |-> 0, fee |-> 0]),
         transfers |-> transfers, deposits |-> deposits, nextId |-> nextId]

----------------------------------------------------------------------------
(* Transactions *)

Apply(out, call) ==
    /\ tasks' = out.tasks
    /\ registry' = out.registry
    /\ events' = out.events
    /\ transfers' = out.transfers
    /\ deposits' = out.deposits
    /\ nextId' = out.nextId
    /\ lastCall' = call
    /\ adminSender' = NoSender
    /\ UNCHANGED <<capOwner, clock>>
    /\ UNCHANGED notLedger

CreateTask ==
    \E sender \in Senders, payment \in PaymentValues, recipient \in Recipients,
       execute_at \in Times, fee_amount \in FeeValues :
        /\ nextId <= MaxTasks
        /\ LET out == create_task(payment, recipient, execute_at, fee_amount, EmptyBytes, sender)
           IN  Apply(out, Call("create_task", nextId, out))

ExecuteTask ==
    \E id \in 1 .. (nextId - 1), sender \in Executors :
        LET out == execute_task(id, sender)
        IN  Apply(out, Call("execute_task", id, out))

CancelTask ==
    \E id \in 1 .. (nextId - 1), sender \in Addr :
        LET out == cancel_task(id, sender)
        IN  Apply(out, Call("cancel_task", id, out))

RescheduleTask ==
    \E id \in 1 .. (nextId - 1), sender \in Reschedulers, new_execute_at \in Times :
        LET out == reschedule_task(id, new_execute_at, sender)
        IN  Apply(out, Call("reschedule_task", id, out))

MarkTaskFailed ==
    \E id \in 1 .. (nextId - 1), sender \in Executors :
        LET out == mark_task_failed(id, sender)
        IN  Apply(out, Call("mark_task_failed", id, out))

(* Admin functions: the AdminCap argument must be owned by the transaction *)
(* sender, or the transaction is refused before the function runs         *)
AdminOk(fn) == [fn |-> fn, task |-> 0, status |-> "success", code |-> 0]
AdminRefused(fn) == [fn |-> fn, task |-> 0, status |-> "refused", code |-> 0]
AdminSenders == {Deployer, "relayer"}
NewAdmins == {"relayer"}

\* the cap holder pauses
Pause ==
    /\ registry' = [registry EXCEPT !.is_paused = TRUE]
    /\ lastCall' = AdminOk("pause")
    /\ adminSender' = capOwner
    /\ UNCHANGED <<tasks, capOwner, clock, nextId, events, transfers, deposits>>
    /\ UNCHANGED notLedger

\* the cap holder unpauses
Unpause ==
    /\ registry' = [registry EXCEPT !.is_paused = FALSE]
    /\ lastCall' = AdminOk("unpause")
    /\ adminSender' = capOwner
    /\ UNCHANGED <<tasks, capOwner, clock, nextId, events, transfers, deposits>>
    /\ UNCHANGED notLedger

set_min_relayer_fee(reg, new_fee) == [reg EXCEPT !.min_relayer_fee = new_fee]

update_admin(reg, new_admin) == [reg EXCEPT !.admin = new_admin]

SetMinRelayerFee ==
    /\ \E sender \in AdminSenders, new_fee \in NewFeeValues \cup {DefaultMinRelayerFee} :
          /\ adminSender' = sender
          /\ IF sender = capOwner
             THEN /\ registry' = set_min_relayer_fee(registry, new_fee)
                  /\ lastCall' = AdminOk("set_min_relayer_fee")
             ELSE /\ registry' = registry
                  /\ lastCall' = AdminRefused("set_min_relayer_fee")
    /\ UNCHANGED <<tasks, capOwner, clock, nextId, events, transfers, deposits>>
    /\ UNCHANGED notLedger

UpdateAdmin ==
    /\ \E sender \in AdminSenders, new_admin \in NewAdmins :
          /\ adminSender' = sender
          /\ IF sender = capOwner
             THEN /\ registry' = update_admin(registry, new_admin)
                  /\ lastCall' = AdminOk("update_admin")
             ELSE /\ registry' = registry
                  /\ lastCall' = AdminRefused("update_admin")
    /\ UNCHANGED <<tasks, capOwner, clock, nextId, events, transfers, deposits>>
    /\ UNCHANGED notLedger

(* The ledger clock advances between transactions *)
Tick ==
    /\ clock < MaxClock
    /\ clock' = clock + 1
    /\ lastCall' = NoCall
    /\ adminSender' = NoSender
    /\ UNCHANGED ledger
    /\ UNCHANGED notLedger

----------------------------------------------------------------------------
(* RetryQueue (services/retryQueue): one Map from task id to the pending  *)
(* timer; the runtime runs the callback of any pending timer.             *)
TaskIds == {"0x1", "0x2"}
NoTimer == 0
NoRetryOp == [op |-> "none", key |-> "", timer |-> NoTimer, replaced |-> NoTimer]

InitRetry ==
    /\ rqQueue = [k \in TaskIds |-> NoTimer]
    /\ rqTimers = {}
    /\ rqNextTimer = 1
    /\ rqFired = {}
    /\ rqCleared = {}
    /\ rqLast = NoRetryOp

\* clearTimeout(t): a pending timer is dropped, anything else is left alone
clearTimeout(timers, t) == {x \in timers : x.id # t}

\* the variant without the clearTimeout of the timer being replaced
scheduleRetry_KeepsOldTimer(queue, timers, cleared, next, key) ==
    [queue |-> [queue EXCEPT ![key] = next],
     timers |-> timers \cup {[id |-> next, key |-> key]},
     cleared |-> cleared,
     replaced |-> queue[key]]

scheduleRetry(queue, timers, cleared, next, key) ==
    LET has == queue[key] # NoTimer
        kept == IF has THEN clearTimeout(timers, queue[key]) ELSE timers
    IN  [queue |-> [queue EXCEPT ![key] = next],
         timers |-> kept \cup {[id |-> next, key |-> key]},
         cleared |-> IF has THEN cleared \cup {queue[key]} ELSE cleared,
         replaced |-> queue[key]]

cancelRetry(queue, timers, cleared, taskId) ==
    IF queue[taskId] # NoTimer
    THEN [queue |-> [queue EXCEPT ![taskId] = NoTimer],
          timers |-> clearTimeout(timers, queue[taskId]),
          cleared |-> cleared \cup {queue[taskId]},
          replaced |-> queue[taskId]]
    ELSE [queue |-> queue, timers |-> timers, cleared |-> cleared, replaced |-> NoTimer]

ScheduleRetry ==
    /\ rqNextTimer <= MaxTimers
    /\ \E key \in TaskIds :
          LET res == scheduleRetry(rqQueue, rqTimers, rqCleared, rqNextTimer, key)
          IN  /\ rqQueue' = res.queue
              /\ rqTimers' = res.timers
              /\ rqCleared' = res.cleared
              /\ rqLast' = [op |-> "scheduleRetry", key |-> key, timer |-> rqNextTimer,
                            replaced |-> res.replaced]
    /\ rqNextTimer' = rqNextTimer + 1
    /\ UNCHANGED rqFired
    /\ UNCHANGED notRetry

CancelRetry ==
    /\ \E taskId \in TaskIds :
          LET res == cancelRetry(rqQueue, rqTimers, rqCleared, taskId)
          IN  /\ rqQueue' = res.queue
              /\ rqTimers' = res.timers
              /\ rqCleared' = res.cleared
              /\ rqLast' = [op |-> "cancelRetry", key |-> taskId, timer |-> NoTimer,
                            replaced |-> res.replaced]
    /\ UNCHANGED <<rqNextTimer, rqFired>>
    /\ UNCHANGED notRetry

\* the callback of a pending timer runs: this.queue.delete(key)
TimerFires ==
    /\ \E t \in rqTimers :
          /\ rqTimers' = rqTimers \ {t}
          /\ rqQueue' = [rqQueue EXCEPT ![t.key] = NoTimer]
          /\ rqFired' = rqFired \cup {t.id}
          /\ rqLast' = [op |-> "fired", key |-> t.key, timer |-> t.id, replaced |-> NoTimer]
    /\ UNCHANGED <<rqNextTimer, rqCleared>>
    /\ UNCHANGED notRetry

----------------------------------------------------------------------------
(* Atomic yield settlement: services/execution/atomicYieldExecution        *)
(* (buildYieldWithdrawalTransaction, executeYieldWithdrawal), the withdraw *)
(* adapters (yieldPTBBuilder) and the Cetus swap step (swapPTBBuilder).    *)

(* getValidatedGasBudget *)
DEFAULT_GAS_BUDGET == 20000000
MAX_ALLOWED_GAS_BUDGET == 50000000
MIN_GAS_BUDGET == 5000000
(* appendCetusSwapStep: slippage when config.slippageBps is no number *)
DEFAULT_SLIPPAGE_BPS == 100
BPS_DENOMINATOR == 10000

(* Environment values, as the character sequences process.env holds *)
Digits == {"0", "1", "2", "3", "4", "5", "6", "7", "8", "9"}
DigitValue(c) ==
    CASE c = "0" -> 0 [] c = "1" -> 1 [] c = "2" -> 2 [] c = "3" -> 3 [] c = "4" -> 4
      [] c = "5" -> 5 [] c = "6" -> 6 [] c = "7" -> 7 [] c = "8" -> 8 [] c = "9" -> 9

\* a variable of process.env: unset, or set to a string (possibly empty)
Unset == [set |-> FALSE, chars |-> << >>]
Env(chars) == [set |-> TRUE, chars |-> chars]
Null == << >>
GasEnvValues ==
    { Unset,
      Env(<< >>),
      Env(<<" ">>),
      Env(<<"a", "b", "c">>),
      Env(<<"1", "e", "9">>),
      Env(<<"-", "5">>),
      Env(<<"0">>),
      Env(<<"4", "9", "9", "9", "9", "9", "9">>),
      Env(<<"5", "0", "0", "0", "0", "0", "0">>),
      Env(<<"5", "0", "0", "0", "0", "0", "0", ".", "5">>),
      Env(<<"5", "0", "0", "0", "0", "0", "1">>),
      Env(<<"+", "2", "0", "0", "0", "0", "0", "0", "0">>),
      Env(<<" ", "3", "0", "0", "0", "0", "0", "0", "0", " ">>),
      Env(<<"4", "9", "9", "9", "9", "9", "9", "9">>),
      Env(<<"5", "0", "0", "0", "0", "0", "0", "0">>),
      Env(<<"5", "0", "0", "0", "0", "0", "0", "1">>),
      Env(<<"9", "0", "0", "0", "0", "0", "0", "0", "x">>),
      Env(<<"x", "9", "0", "0", "0", "0", "0", "0", "0">>) }

RECURSIVE TrimLeft(_)
TrimLeft(str) == IF str # << >> /\ Head(str) = " " THEN TrimLeft(Tail(str)) ELSE str

RECURSIVE TrimRight(_)
TrimRight(str) ==
    IF str # << >> /\ str[Len(str)] = " " THEN TrimRight(SubSeq(str, 1, Len(str) - 1)) ELSE str

Trim(str) == TrimRight(TrimLeft(str))

\* getEnvString: null when the variable is unset, empty or blank
getEnvString(raw) == IF ~raw.set \/ Trim(raw.chars) = << >> THEN Null ELSE Trim(raw.chars)

RECURSIVE DigitPrefix(_, _)
\* value of the longest prefix of digits, continuing from acc
DigitPrefix(str, acc) ==
    IF str # << >> /\ Head(str) \in Digits
    THEN DigitPrefix(Tail(str), acc * 10 + DigitValue(Head(str)))
    ELSE acc

\* Number.parseInt(raw, 10): [nan |-> TRUE] when no digit follows the optional sign
ParseInt(raw) ==
    LET t == TrimLeft(raw)
        neg == t # << >> /\ Head(t) = "-"
        body == IF t # << >> /\ Head(t) \in {"-", "+"} THEN Tail(t) ELSE t
    IN  IF body = << >> \/ Head(body) \notin Digits
        THEN [nan |-> TRUE, value |-> 0]
        ELSE [nan |-> FALSE,
              value |-> IF neg THEN 0 - DigitPrefix(body, 0) ELSE DigitPrefix(body, 0)]

getEnvInt(raw, fallback) ==
    LET str == getEnvString(raw)
    IN  IF str = Null THEN fallback
        ELSE IF ParseInt(str).nan THEN fallback ELSE ParseInt(str).value

getValidatedGasBudget(raw) ==
    LET configured == getEnvInt(raw, DEFAULT_GAS_BUDGET)
    IN  IF configured > MAX_ALLOWED_GAS_BUDGET THEN MAX_ALLOWED_GAS_BUDGET
        ELSE IF configured < MIN_GAS_BUDGET THEN MIN_GAS_BUDGET
        ELSE configured

(* relayer.ts: GAS_BUDGET_LIMIT is read once, when the module loads; a    *)
(* number is [nan, value], and every comparison with NaN is false         *)
Num(n) == [nan |-> FALSE, value |-> n]
NaN == [nan |-> TRUE, value |-> 0]
DefaultGasBudgetChars == <<"2", "0", "0", "0", "0", "0", "0", "0">>

GAS_BUDGET_LIMIT(raw) == ParseInt(IF raw.set THEN raw.chars ELSE DefaultGasBudgetChars)

relayer_getValidatedGasBudget(limit) ==
    IF ~limit.nan /\ limit.value > MAX_ALLOWED_GAS_BUDGET THEN Num(MAX_ALLOWED_GAS_BUDGET)
    ELSE IF ~limit.nan /\ limit.value < MIN_GAS_BUDGET THEN Num(MIN_GAS_BUDGET)
    ELSE limit

(* The two executors' gas configuration as a process: the operator sets   *)
(* GAS_BUDGET_LIMIT and starts the process, relayer.ts loads, and either  *)
(* getValidatedGasBudget is called.                                       *)
NotCalled == [called |-> FALSE, nan |-> FALSE, value |-> 0]
Result(num) == [called |-> TRUE, nan |-> num.nan, value |-> num.value]

InitConfig ==
    /\ cfgEnv = Unset
    /\ cfgStarted = FALSE
    /\ cfgLimit = NaN
    /\ cfgLoaded = FALSE
    /\ cfgBudget = NotCalled
    /\ cfgRelayerBudget = NotCalled

Configure ==
    /\ ~cfgStarted
    /\ cfgEnv' \in GasEnvValues
    /\ cfgStarted' = TRUE
    /\ UNCHANGED <<cfgLimit, cfgLoaded, cfgBudget, cfgRelayerBudget>>
    /\ UNCHANGED notConfig

LoadRelayer ==
    /\ cfgStarted /\ ~cfgLoaded
    /\ cfgLimit' = GAS_BUDGET_LIMIT(cfgEnv)
    /\ cfgLoaded' = TRUE
    /\ UNCHANGED <<cfgEnv, cfgStarted, cfgBudget, cfgRelayerBudget>>
    /\ UNCHANGED notConfig

GetValidatedGasBudget ==
    /\ cfgStarted
    /\ cfgBudget' = Result(Num(getValidatedGasBudget(cfgEnv)))
    /\ UNCHANGED <<cfgEnv, cfgStarted, cfgLimit, cfgLoaded, cfgRelayerBudget>>
    /\ UNCHANGED notConfig

RelayerGetValidatedGasBudget ==
    /\ cfgLoaded
    /\ cfgRelayerBudget' = Result(relayer_getValidatedGasBudget(cfgLimit))
    /\ UNCHANGED <<cfgEnv, cfgStarted, cfgLimit, cfgLoaded, cfgBudget>>
    /\ UNCHANGED notConfig

(* Strategy documents *)
Protocols == {"navi", "suilend", "scallop"}
SelectedProtocols == {"navi", "Suilend", "scallop", "cetus"}
Networks == {"mainnet", "testnet"}
CoinTypes == {"0x2::sui::SUI", ""}
\* a well-formed address, a malformed one, and the gas station's own address
TargetAddresses == {"0xb0b", "bob", "0x9a5"}
NoRef == [protocol |-> "none", id |-> ""]
PositionRefs ==
    { NoRef,
      [protocol |-> "navi", id |-> "0xpool"],
      [protocol |-> "suilend", id |-> "0xobligation"],
      [protocol |-> "scallop", id |-> "0xmarketcoin"],
      [protocol |-> "scallop", id |-> ""],
      [protocol |-> "suilend", id |-> ""],
      [protocol |-> "navi", id |-> ""] }
NoSwap == [provider |-> "none", a2b |-> TRUE, hasSlippage |-> FALSE, slippageBps |-> 0]
SwapConfigs ==
    { NoSwap,
      [provider |-> "cetus", a2b |-> TRUE, hasSlippage |-> FALSE, slippageBps |-> 0],
      [provider |-> "cetus", a2b |-> FALSE, hasSlippage |-> TRUE, slippageBps |-> 50],
      [provider |-> "cetus", a2b |-> TRUE, hasSlippage |-> TRUE, slippageBps |-> 0],
      [provider |-> "cetus", a2b |-> FALSE, hasSlippage |-> TRUE, slippageBps |-> 10000],
      [provider |-> "cetus", a2b |-> TRUE, hasSlippage |-> TRUE, slippageBps |-> 10001],
      [provider |-> "cetus", a2b |-> FALSE, hasSlippage |-> TRUE, slippageBps |-> -1],
      [provider |-> "turbos", a2b |-> TRUE, hasSlippage |-> FALSE, slippageBps |-> 0] }
Amount == 1000
Quotes == {0, 1, 1000}
RelayerAddress == "0x4e1a"
GasStationAddress == "0x9a5"

Strategies ==
    [selectedProtocol : SelectedProtocols, coinType : CoinTypes, positionRef : PositionRefs,
     swapConfig : SwapConfigs, targetAddress : TargetAddresses, amount : {Amount}]

NoStrategy ==
    [selectedProtocol |-> "", coinType |-> "", positionRef |-> NoRef, swapConfig |-> NoSwap,
     targetAddress |-> "", amount |-> 0]

\* value.trim().toLowerCase() of the protocol names in use
Normalize(value) == IF value = "Suilend" THEN "suilend" ELSE value

\* /^0x[0-9a-fA-F]{1,64}$/ on the addresses in use
IsSuiAddress(value) == value \in {"0xb0b", RelayerAddress, GasStationAddress, "0xa11ce"}

(* The Transaction: its commands in order, and what setGasBudget, setSender  *)
(* and setGasOwner recorded.  A coin handle is <<command index, result>>.    *)
EmptyTx == [cmds |-> << >>, gasBudget |-> 0, sender |-> "", gasOwner |-> ""]
NoHandle == <<0, 0>>

Cmd(op, args, amount, limit, a2b, to) ==
    [op |-> op, args |-> args, amount |-> amount, limit |-> limit, a2b |-> a2b, to |-> to]

Threw(msg, tx) == [ok |-> FALSE, error |-> msg, tx |-> tx, coins |-> << >>]
Returned(tx, coins) == [ok |-> TRUE, error |-> "", tx |-> tx, coins |-> coins]

AddCmd(tx, cmd) == [tx EXCEPT !.cmds = Append(@, cmd)]

(* yieldPTBBuilder.appendWithdrawStep; sdk is what the protocol SDK call does *)
SdkOutcomes == {"ok", "throws_before_append", "throws_after_append"}

RefMatches(req, protocol) == req.positionRef # NoRef /\ req.positionRef.protocol = protocol

appendWithdrawStep(tx, req, sdk, scallopEnvSet) ==
    CASE req.protocol = "suilend" ->
            IF ~RefMatches(req, "suilend") THEN Threw("Missing/invalid positionRef", tx)
            ELSE IF sdk = "throws_before_append" THEN Threw("SuilendClient.initialize", tx)
            ELSE LET refreshed == AddCmd(tx, Cmd("suilend_refresh", << >>, 0, 0, TRUE, ""))
                 IN  IF sdk = "throws_after_append" THEN Threw("suilend.withdraw", refreshed)
                     ELSE LET done == AddCmd(refreshed,
                                             Cmd("withdraw", << >>, req.amount, 0, TRUE, ""))
                          IN  Returned(done, << <<Len(done.cmds), 1>> >>)
      [] req.protocol = "navi" ->
            IF ~RefMatches(req, "navi") THEN Threw("Missing/invalid positionRef", tx)
            ELSE IF sdk # "ok" THEN Threw("withdrawCoinPTB", tx)
            ELSE LET done == AddCmd(tx, Cmd("withdraw", << >>, req.amount, 0, TRUE, ""))
                 IN  Returned(done, << <<Len(done.cmds), 1>> >>)
      [] req.protocol = "scallop" ->
            IF req.network # "mainnet" THEN Threw("Scallop execution is mainnet-only", tx)
            ELSE IF ~RefMatches(req, "scallop") THEN Threw("Missing/invalid positionRef", tx)
            ELSE IF req.positionRef.id = "" THEN Threw("marketCoinId is required", tx)
            ELSE IF ~scallopEnvSet THEN Threw("SCALLOP_PACKAGE_ID must be set", tx)
            ELSE LET done == AddCmd(tx, Cmd("redeem", << >>, 0, 0, TRUE, ""))
                 IN  Returned(done, << <<Len(done.cmds), 1>> >>)
      [] OTHER -> Threw("Unexpected variant", tx)

(* swapPTBBuilder *)
\* the variant without the range check
applySlippageBps_NoRangeCheck(amountOut, slippageBps) ==
    [ok |-> TRUE, value |-> (amountOut * (BPS_DENOMINATOR - slippageBps)) \div BPS_DENOMINATOR]

applySlippageBps(amountOut, slippageBps) ==
    IF slippageBps < 0 \/ slippageBps > BPS_DENOMINATOR
    THEN [ok |-> FALSE, value |-> 0]
    ELSE [ok |-> TRUE, value |-> (amountOut * (BPS_DENOMINATOR - slippageBps)) \div BPS_DENOMINATOR]

\* oracle: what the pool lookup, the coin metadata, the preswap quote and the
\* SDK's swap builder answer
SwapOracles ==
    [pool : BOOLEAN, meta : BOOLEAN, quoted : BOOLEAN, quote : Quotes, sdkBuilds : BOOLEAN]

appendCetusSwapStep(tx, req, oracle) ==
    IF req.config.provider # "cetus" THEN Threw("Unsupported swap provider", tx)
    ELSE IF ~oracle.pool THEN Threw("Cetus pool not found", tx)
    ELSE IF ~oracle.meta THEN Threw("Missing coin metadata/decimals", tx)
    ELSE
        LET slippageBps == IF req.config.hasSlippage THEN req.config.slippageBps
                           ELSE DEFAULT_SLIPPAGE_BPS
            minOut == applySlippageBps(oracle.quote, slippageBps)
        IN  IF ~oracle.quoted THEN Threw("Cetus preswap returned null/invalid result", tx)
            ELSE IF ~minOut.ok THEN Threw("Invalid slippageBps", tx)
            ELSE IF minOut.value <= 0 THEN Threw("Computed minOut is <= 0", tx)
            ELSE
                LET withZero == AddCmd(tx, Cmd("mint_zero", << >>, 0, 0, req.config.a2b, ""))
                    zero == <<Len(withZero.cmds), 1>>
                    inputCoinA == IF req.config.a2b THEN req.inputCoin ELSE zero
                    inputCoinB == IF req.config.a2b THEN zero ELSE req.inputCoin
                    built == AddCmd(withZero,
                                    Cmd("swap", <<inputCoinA, inputCoinB>>, req.amountIn,
                                        minOut.value, req.config.a2b, ""))
                IN  IF ~oracle.sdkBuilds THEN Threw("buildSwapTransaction", withZero)
                    ELSE Returned(built, << <<Len(built.cmds), 1>>, <<Len(built.cmds), 2>> >>)

(* buildYieldWithdrawalTransaction, stage by stage *)
UserAddress == "0xa11ce"

parseYieldProtocol(value) ==
    IF Normalize(value) \in Protocols
    THEN [ok |-> TRUE, value |-> Normalize(value)]
    ELSE [ok |-> FALSE, value |-> ""]

\* lines 109-122: the validations, then the withdraw adapter on a new Transaction
withdrawStage(strategy, ctx, sdk, scallopEnvSet) ==
    LET protocol == parseYieldProtocol(strategy.selectedProtocol)
    IN  IF ~protocol.ok THEN Threw("Unsupported yield protocol for withdraw", EmptyTx)
        ELSE IF strategy.coinType = "" THEN Threw("Yield strategy missing coinType", EmptyTx)
        ELSE IF strategy.positionRef = NoRef
             THEN Threw("Yield strategy missing positionRef", EmptyTx)
        ELSE IF ~IsSuiAddress(UserAddress) \/ ~IsSuiAddress(strategy.targetAddress)
             THEN Threw("Invalid Sui address", EmptyTx)
        ELSE appendWithdrawStep(EmptyTx,
                                [protocol |-> protocol.value, network |-> ctx.network,
                                 amount |-> strategy.amount,
                                 positionRef |-> strategy.positionRef],
                                sdk, scallopEnvSet)

\* the variant a catch around the swap step would give: the swap's error is
\* dropped and the withdrawn coin goes on to the transfer
swapStage_CatchesSwapError(tx, withdrawnCoin, strategy, ctx, oracle) ==
    IF strategy.swapConfig = NoSwap
    THEN [ok |-> TRUE, error |-> "", tx |-> tx, coins |-> <<withdrawnCoin>>, swap |-> "skipped"]
    ELSE IF strategy.swapConfig.provider # "cetus"
    THEN [ok |-> FALSE, error |-> "Unsupported swap provider", tx |-> tx, coins |-> << >>,
          swap |-> "threw"]
    ELSE
        LET swapBuilt == appendCetusSwapStep(tx,
                            [config |-> strategy.swapConfig, inputCoin |-> withdrawnCoin,
                             amountIn |-> strategy.amount, network |-> ctx.network], oracle)
        IN  IF swapBuilt.ok
            THEN [ok |-> TRUE, error |-> "", tx |-> swapBuilt.tx, coins |-> swapBuilt.coins,
                  swap |-> "ok"]
            ELSE [ok |-> TRUE, error |-> "", tx |-> tx, coins |-> <<withdrawnCoin>>,
                  swap |-> "threw"]

\* lines 124-143: coinsToTransfer and the optional swap; nothing catches
swapStage(tx, withdrawnCoin, strategy, ctx, oracle) ==
    IF strategy.swapConfig = NoSwap
    THEN [ok |-> TRUE, error |-> "", tx |-> tx, coins |-> <<withdrawnCoin>>, swap |-> "skipped"]
    ELSE IF strategy.swapConfig.provider # "cetus"
    THEN [ok |-> FALSE, error |-> "Unsupported swap provider", tx |-> tx, coins |-> << >>,
          swap |-> "threw"]
    ELSE
        LET swapBuilt == appendCetusSwapStep(tx,
                            [config |-> strategy.swapConfig, inputCoin |-> withdrawnCoin,
                             amountIn |-> strategy.amount, network |-> ctx.network], oracle)
        IN  IF swapBuilt.ok
            THEN [ok |-> TRUE, error |-> "", tx |-> swapBuilt.tx, coins |-> swapBuilt.coins,
                  swap |-> "ok"]
            ELSE [ok |-> FALSE, error |-> swapBuilt.error, tx |-> swapBuilt.tx,
                  coins |-> << >>, swap |-> "threw"]

\* the variant that transfers the swap's output coin alone
transferStage_DropsCounterAsset(tx, coinsToTransfer, strategy, gasEnv) ==
    [AddCmd(tx, Cmd("transfer", <<coinsToTransfer[Len(coinsToTransfer)]>>, 0, 0, TRUE,
                    strategy.targetAddress))
        EXCEPT !.gasBudget = getValidatedGasBudget(gasEnv)]

\* lines 145-150: transferObjects, then setGasBudget
transferStage(tx, coinsToTransfer, strategy, gasEnv) ==
    [AddCmd(tx, Cmd("transfer", coinsToTransfer, 0, 0, TRUE, strategy.targetAddress))
        EXCEPT !.gasBudget = getValidatedGasBudget(gasEnv)]

(* What the chain does with a submitted transaction: the commands run in   *)
(* order on a scratch copy; any abort, or a coin left unused at the end,   *)
(* discards the copy.                                                      *)
Positions == {0, Amount, 2 * Amount}

InitChain(position) ==
    [position0 |-> position, position |-> position, targetIn |-> 0, targetOut |-> 0,
     relayerIn |-> 0, relayerOut |-> 0, status |-> "none"]

Scratch(chain) ==
    [position |-> chain.position, coins |-> << >>, targetIn |-> chain.targetIn,
     targetOut |-> chain.targetOut, relayerIn |-> chain.relayerIn,
     relayerOut |-> chain.relayerOut, aborted |-> FALSE]

Without(coins, handles) == [h \in DOMAIN coins \ handles |-> coins[h]]

Range(seq) == {seq[i] : i \in DOMAIN seq}

RECURSIVE SumKind(_, _, _)
SumKind(coins, handles, kind) ==
    IF handles = << >> THEN 0
    ELSE (IF coins[Head(handles)].kind = kind THEN coins[Head(handles)].value ELSE 0)
         + SumKind(coins, Tail(handles), kind)

ExecCmd(c, i, st, realOut) ==
    CASE c.op = "suilend_refresh" -> st
      [] c.op = "withdraw" ->
            IF c.amount <= 0 \/ st.position < c.amount THEN [st EXCEPT !.aborted = TRUE]
            ELSE [st EXCEPT !.position = @ - c.amount,
                            !.coins = @ @@ (<<i, 1>> :> [kind |-> "in", value |-> c.amount])]
      [] c.op = "redeem" ->
            IF st.position = 0 THEN [st EXCEPT !.aborted = TRUE]
            ELSE [st EXCEPT !.position = 0,
                            !.coins = @ @@ (<<i, 1>> :> [kind |-> "in", value |-> st.position])]
      [] c.op = "mint_zero" ->
            [st EXCEPT !.coins = @ @@ (<<i, 1>> :> [kind |-> "out", value |-> 0])]
      [] c.op = "swap" ->
            LET input == IF c.a2b THEN c.args[1] ELSE c.args[2]
                zero == IF c.a2b THEN c.args[2] ELSE c.args[1]
            IN  IF \/ ~({input, zero} \subseteq DOMAIN st.coins)
                   \/ input = zero
                THEN [st EXCEPT !.aborted = TRUE]
                ELSE IF st.coins[input].value < c.amount \/ realOut < c.limit
                THEN [st EXCEPT !.aborted = TRUE]
                ELSE
                    LET rest == [kind |-> "in", value |-> st.coins[input].value - c.amount]
                        out == [kind |-> "out", value |-> st.coins[zero].value + realOut]
                    IN  [st EXCEPT !.coins =
                            Without(@, {input, zero})
                            @@ (<<i, 1>> :> (IF c.a2b THEN rest ELSE out))
                            @@ (<<i, 2>> :> (IF c.a2b THEN out ELSE rest))]
      [] c.op = "transfer" ->
            IF ~(Range(c.args) \subseteq DOMAIN st.coins) \/ ~IsSuiAddress(c.to)
            THEN [st EXCEPT !.aborted = TRUE]
            ELSE IF c.to = RelayerAddress
            THEN [st EXCEPT !.relayerIn = @ + SumKind(st.coins, c.args, "in"),
                            !.relayerOut = @ + SumKind(st.coins, c.args, "out"),
                            !.coins = Without(@, Range(c.args))]
            ELSE [st EXCEPT !.targetIn = @ + SumKind(st.coins, c.args, "in"),
                            !.targetOut = @ + SumKind(st.coins, c.args, "out"),
                            !.coins = Without(@, Range(c.args))]
      [] OTHER -> [st EXCEPT !.aborted = TRUE]

RECURSIVE ExecCmds(_, _, _, _)
ExecCmds(cmds, i, st, realOut) ==
    IF st.aborted \/ i > Len(cmds) THEN st
    ELSE ExecCmds(cmds, i + 1, ExecCmd(cmds[i], i, st, realOut), realOut)

ExecTx(tx, chain, realOut) ==
    LET st == ExecCmds(tx.cmds, 1, Scratch(chain), realOut)
    IN  IF st.aborted \/ DOMAIN st.coins # {}
        THEN [chain EXCEPT !.status = "failure"]
        ELSE [chain EXCEPT !.position = st.position, !.targetIn = st.targetIn,
                           !.targetOut = st.targetOut, !.relayerIn = st.relayerIn,
                           !.relayerOut = st.relayerOut, !.status = "success"]

(* executeYieldWithdrawal as a process *)
NoSteps == [withdraw |-> "none", swap |-> "none", transfer |-> "none"]
NoEnv == [network |-> "testnet", relayerKey |-> FALSE, gasStationKey |-> FALSE]
Envs == [network : Networks, relayerKey : BOOLEAN, gasStationKey : BOOLEAN]

InitComposer ==
    /\ ypc = "idle"
    /\ yStrategy = NoStrategy
    /\ yEnv = NoEnv
    /\ yTx = EmptyTx
    /\ yWithdrawn = NoHandle
    /\ yCoins = << >>
    /\ ySteps = NoSteps
    /\ yError = ""
    /\ ySubmitted = << >>
    /\ yChain = InitChain(0)

Fail(msg) == ypc' = "failed" /\ yError' = msg

\* a settlement is requested; lines 158-164 read the environment
YStart ==
    /\ ypc = "idle"
    /\ \E strategy \in Strategies, env \in Envs, position \in Positions :
          /\ yStrategy' = strategy
          /\ yEnv' = env
          /\ yChain' = InitChain(position)
          /\ IF env.relayerKey
             THEN ypc' = "withdraw" /\ yError' = yError
             ELSE Fail("RELAYER_PRIVATE_KEY must be set in environment")
    /\ UNCHANGED <<yTx, yWithdrawn, yCoins, ySteps, ySubmitted>>
    /\ UNCHANGED notComposer

YWithdraw ==
    /\ ypc = "withdraw"
    /\ \E sdk \in SdkOutcomes, scallopEnvSet \in BOOLEAN :
          LET res == withdrawStage(yStrategy, [network |-> yEnv.network], sdk, scallopEnvSet)
          IN  /\ yTx' = res.tx
              /\ IF res.ok
                 THEN /\ yWithdrawn' = res.coins[1]
                      /\ ySteps' = [ySteps EXCEPT !.withdraw = "ok"]
                      /\ ypc' = "swap"
                      /\ yError' = yError
                 ELSE /\ yWithdrawn' = yWithdrawn
                      /\ ySteps' = [ySteps EXCEPT !.withdraw = "threw"]
                      /\ Fail(res.error)
    /\ UNCHANGED <<yStrategy, yEnv, yCoins, ySubmitted, yChain>>
    /\ UNCHANGED notComposer

YSwap ==
    /\ ypc = "swap"
    /\ \E oracle \in SwapOracles :
          LET res == swapStage(yTx, yWithdrawn, yStrategy, [network |-> yEnv.network], oracle)
          IN  /\ yTx' = res.tx
              /\ yCoins' = res.coins
              /\ ySteps' = [ySteps EXCEPT !.swap = res.swap]
              /\ IF res.ok THEN ypc' = "transfer" /\ yError' = yError ELSE Fail(res.error)
    /\ UNCHANGED <<yStrategy, yEnv, yWithdrawn, ySubmitted, yChain>>
    /\ UNCHANGED notComposer

YTransfer ==
    /\ ypc = "transfer"
    /\ \E gasEnv \in GasEnvValues :
          yTx' = transferStage(yTx, yCoins, yStrategy, gasEnv)
    /\ ySteps' = [ySteps EXCEPT !.transfer = "ok"]
    /\ ypc' = "submit"
    /\ UNCHANGED <<yStrategy, yEnv, yWithdrawn, yCoins, yError, ySubmitted, yChain>>
    /\ UNCHANGED notComposer

\* lines 169-198: sponsored when a gas station key is configured, else direct
Signed(tx, env) ==
    IF env.gasStationKey
    THEN [tx |-> [tx EXCEPT !.sender = RelayerAddress, !.gasOwner = GasStationAddress],
          signatures |-> <<"relayer", "gasStation">>]
    ELSE [tx |-> [tx EXCEPT !.sender = RelayerAddress, !.gasOwner = RelayerAddress],
          signatures |-> <<"relayer">>]

YSubmit ==
    /\ ypc = "submit"
    /\ \/ \* tx.build or the request throws before the node has the transaction
          /\ Fail("RPC request failed")
          /\ UNCHANGED <<yTx, ySubmitted, yChain>>
       \/ \E realOut \in Quotes, answered \in BOOLEAN :
             /\ yTx' = Signed(yTx, yEnv).tx
             /\ ySubmitted' = Append(ySubmitted, Signed(yTx, yEnv))
             /\ yChain' = ExecTx(yTx', yChain, realOut)
             /\ IF answered
                THEN ypc' = "done" /\ yError' = yError
                ELSE Fail("RPC response lost")
    /\ UNCHANGED <<yStrategy, yEnv, yWithdrawn, yCoins, ySteps>>
    /\ UNCHANGED notComposer

----------------------------------------------------------------------------
(* ErrorRecovery.classifyError (services/errorRecovery).  A message is    *)
(* the character sequence String(err); includes is substring search.      *)
Txt_Insufficient == <<"I", "n", "s", "u", "f", "f", "i", "c", "i", "e", "n", "t">>
Txt_network == <<"n", "e", "t", "w", "o", "r", "k">>
Txt_Network == <<"N", "e", "t", "w", "o", "r", "k">>
Txt_notFound == <<"n", "o", "t", " ", "f", "o", "u", "n", "d">>
Txt_objectNotFound == <<"o", "b", "j", "e", "c", "t", " ", "n", "o", "t", " ", "f", "o", "u", "n", "d">>
Txt_NotReady == <<"N", "o", "t", "R", "e", "a", "d", "y">>
Txt_NotReadyYet == <<"N", "o", "t", "R", "e", "a", "d", "y", "Y", "e", "t">>
Txt_paused == <<"p", "a", "u", "s", "e", "d">>
Txt_ContractPaused == <<"C", "o", "n", "t", "r", "a", "c", "t", "P", "a", "u", "s", "e", "d">>
Txt_MoveAbort == <<"M", "o", "v", "e", "A", "b", "o", "r", "t">>
Txt_Paused == <<"P", "a", "u", "s", "e", "d">>
Txt_timeout == <<"t", "i", "m", "e", "o", "u", "t">>

Fragments ==
    { Txt_Insufficient, Txt_network, Txt_Network, Txt_notFound, Txt_NotReady, Txt_NotReadyYet,
      Txt_paused, Txt_ContractPaused, Txt_MoveAbort, Txt_Paused, Txt_timeout }

\* failure texts: one fragment, or two joined by a blank
Messages == Fragments \cup {a \o <<" ">> \o b : a \in Fragments, b \in Fragments} \cup {<< >>}

includes(message, pattern) ==
    \E i \in 1 .. (Len(message) - Len(pattern) + 1) :
        SubSeq(message, i, i + Len(pattern) - 1) = pattern

\* the variant that looks for the pause patterns before the time patterns
classifyError_PausedFirst(message) ==
    IF includes(message, Txt_Insufficient) THEN "InsufficientGas"
    ELSE IF includes(message, Txt_network) \/ includes(message, Txt_Network) THEN "Network"
    ELSE IF includes(message, Txt_notFound) \/ includes(message, Txt_objectNotFound)
         THEN "ObjectNotFound"
    ELSE IF includes(message, Txt_paused) \/ includes(message, Txt_ContractPaused)
         THEN "ContractPaused"
    ELSE IF includes(message, Txt_NotReady) \/ includes(message, Txt_NotReadyYet)
         THEN "TimeNotReady"
    ELSE "Unknown"

classifyError(message) ==
    IF includes(message, Txt_Insufficient) THEN "InsufficientGas"
    ELSE IF includes(message, Txt_network) \/ includes(message, Txt_Network) THEN "Network"
    ELSE IF includes(message, Txt_notFound) \/ includes(message, Txt_objectNotFound)
         THEN "ObjectNotFound"
    ELSE IF includes(message, Txt_NotReady) \/ includes(message, Txt_NotReadyYet)
         THEN "TimeNotReady"
    ELSE IF includes(message, Txt_paused) \/ includes(message, Txt_ContractPaused)
         THEN "ContractPaused"
    ELSE "Unknown"

ErrorKinds ==
    {"InsufficientGas", "Network", "ObjectNotFound", "TimeNotReady", "ContractPaused", "Unknown"}

InitClassify ==
    /\ clMessage = << >>
    /\ clKind = "none"

\* an operation fails with some text
ErrorArrives ==
    /\ clMessage' \in Messages
    /\ clKind' = "none"
    /\ UNCHANGED notClassify

ClassifyError ==
    /\ clKind = "none"
    /\ clKind' = classifyError(clMessage)
    /\ UNCHANGED clMessage
    /\ UNCHANGED notClassify

----------------------------------------------------------------------------
(* Task discovery: OptimisticExecutor.scanAndExecute (services/executor)  *)
(* and relayer.ts scanAndExecute, up to the list of due tasks.            *)
QUERY_LIMIT == 50
ScanPayment == 3000000
ScanFee == 1000000
WallClocks == Times

DigitChar(d) == CHOOSE c \in Digits : DigitValue(c) = d

RECURSIVE ToChars(_)
\* a u64 as the JSON-RPC renders it: a decimal string
ToChars(n) == IF n < 10 THEN <<DigitChar(n)>> ELSE Append(ToChars(n \div 10), DigitChar(n % 10))

\* client.queryEvents(TaskCreated, limit 50, descending), mapped to task ids:
\* the newest QUERY_LIMIT events of the type, newest first, and no next page
queryEvents(log) ==
    LET IsCreated(e) == e.type = "TaskCreated"
        created == SelectSeq(log, IsCreated)
        n == Len(created)
    IN  [i \in 1 .. (IF n < QUERY_LIMIT THEN n ELSE QUERY_LIMIT) |-> created[n + 1 - i].task_id]

\* client.multiGetObjects: the object's fields as JSON, or no data for a deleted object
getObject(live, id) ==
    IF id \in DOMAIN live
    THEN [data |-> TRUE, objectId |-> id, execute_at |-> ToChars(live[id].execute_at),
          status |-> live[id].status]
    ELSE [data |-> FALSE, objectId |-> id, execute_at |-> << >>, status |-> 0]

multiGetObjects(live, ids) == [i \in 1 .. Len(ids) |-> getObject(live, ids[i])]

NoFields == [ok |-> FALSE, taskId |-> 0, executeAtMs |-> 0, status |-> 0]

extractTaskFields(obj) ==
    IF ~obj.data THEN NoFields
    ELSE IF ParseInt(obj.execute_at).nan THEN NoFields
    ELSE [ok |-> TRUE, taskId |-> obj.objectId, executeAtMs |-> ParseInt(obj.execute_at).value,
          status |-> obj.status]

\* the variant of the filter that looks at the time alone
isDue_IgnoresStatus(t, now) == now >= t.executeAtMs

\* t.status === 0 && now >= t.executeAtMs
isDue(t, now) == t.status = 0 /\ now >= t.executeAtMs

dueTasks(objects, now) ==
    LET Due(obj) == extractTaskFields(obj).ok /\ isDue(extractTaskFields(obj), now)
        kept == SelectSeq(objects, Due)
    IN  [i \in 1 .. Len(kept) |-> kept[i].objectId]

NoScan == [ran |-> FALSE, ids |-> << >>, live |-> << >>, now |-> 0, due |-> << >>]

InitScan ==
    /\ scPc = "idle"
    /\ scIds = << >>
    /\ scLast = NoScan

Completed(ids, live, now) ==
    [ran |-> TRUE, ids |-> ids, live |-> live, now |-> now,
     due |-> dueTasks(multiGetObjects(live, ids), now)]

(* The ledger beside the scan: a user schedules and cancels payments, a   *)
(* relayer executes them or marks them failed, the clock advances.  The   *)
(* list of due tasks is local to one scan, so the ledger is held still    *)
(* only while that list exists.                                           *)
ScanUser == "alice"
ScanRelayer == "relayer"

ScanCreateTask ==
    /\ scPc # "done"
    /\ nextId <= MaxScanTasks
    /\ \E recipient \in Recipients, execute_at \in Times :
          LET out == create_task(ScanPayment, recipient, execute_at, ScanFee, EmptyBytes,
                                 ScanUser)
          IN  Apply(out, Call("create_task", nextId, out))

ScanExecuteTask ==
    /\ scPc # "done"
    /\ \E id \in DOMAIN tasks :
          LET out == execute_task(id, ScanRelayer)
          IN  Apply(out, Call("execute_task", id, out))

ScanCancelTask ==
    /\ scPc # "done"
    /\ \E id \in DOMAIN tasks :
          LET out == cancel_task(id, ScanUser)
          IN  Apply(out, Call("cancel_task", id, out))

ScanMarkTaskFailed ==
    /\ scPc # "done"
    /\ \E id \in DOMAIN tasks :
          LET out == mark_task_failed(id, ScanRelayer)
          IN  Apply(out, Call("mark_task_failed", id, out))

ScanTick ==
    /\ scPc # "done"
    /\ Tick

\* first read: the creation events; with no task id the scan returns at once
ScanQueryEvents ==
    /\ scPc = "idle"
    /\ scIds' = queryEvents(events)
    /\ IF scIds' = << >>
       THEN /\ scPc' = "done"
            /\ scLast' = [ran |-> TRUE, ids |-> << >>, live |-> tasks, now |-> 0,
                          due |-> << >>]
       ELSE /\ scPc' = "objects"
            /\ UNCHANGED scLast
    /\ UNCHANGED ledgerVars
    /\ UNCHANGED notScan

\* second read: the objects, filtered against Date.now()
ScanFetchObjects ==
    /\ scPc = "objects"
    /\ \E now \in WallClocks :
          scLast' = Completed(scIds, tasks, now)
    /\ scPc' = "done"
    /\ UNCHANGED scIds
    /\ UNCHANGED ledgerVars
    /\ UNCHANGED notScan

\* scanAndExecute returns; its locals are gone
ScanReturn ==
    /\ scPc = "done"
    /\ scPc' = "idle"
    /\ scIds' = << >>
    /\ scLast' = NoScan
    /\ UNCHANGED ledgerVars
    /\ UNCHANGED notScan

----------------------------------------------------------------------------
----------------------------------------------------------------------------
(* relayer.ts executeTask: one execute_task call, submitted sponsored when *)
(* a gas station keypair is loaded and directly otherwise.                 *)
NoKeypair == "none"
RelayerKey == "kR"
GasStationKey == "kG"
ValidKeys == {RelayerKey, GasStationKey}

\* process.env values of the two private keys: unset, empty, not a key, a key
KeyEnv(set, value) == [set |-> set, value |-> value]
RelayerKeyEnvs == {KeyEnv(FALSE, ""), KeyEnv(TRUE, "bad"), KeyEnv(TRUE, RelayerKey)}
GasStationKeyEnvs ==
    { KeyEnv(FALSE, ""), KeyEnv(TRUE, ""), KeyEnv(TRUE, "bad"), KeyEnv(TRUE, RelayerKey),
      KeyEnv(TRUE, GasStationKey) }
SponsorGasEnvs == {Unset, Env(<< >>), Env(<<"9", "0", "0", "0", "0", "0", "0", "0">>)}

\* keypair.getPublicKey().toSuiAddress()
toSuiAddress(key) ==
    CASE key = RelayerKey -> "relayer"
      [] key = GasStationKey -> "gasStation"
      [] OTHER -> "undefined"

\* lines 69-88: a falsy value is skipped, a value fromSecretKey rejects is
\* caught and logged; either way the keypair stays undefined
loadKeypair(env) ==
    IF ~env.set \/ env.value = "" THEN NoKeypair
    ELSE IF env.value \notin ValidKeys THEN NoKeypair
    ELSE env.value

NoKeys == [relayer |-> NoKeypair, gasStation |-> NoKeypair]
NoSubmission ==
    [mode |-> "none", bytes |-> [task |-> 0, sender |-> "", gasOwner |-> "", gasBudget |-> 0],
     signatures |-> << >>]

SponsorRecipients == {"bob", "gasStation"}
SponsorUser == "alice"

InitSponsor ==
    /\ spLoaded = FALSE
    /\ spKeys = NoKeys
    /\ spLimit = NaN
    /\ spSubmitted = NoSubmission

Signature(key, bytes) == [signer |-> key, over |-> bytes]

\* mutant: only the sender signs the sponsored transaction
executeSponsoredTransaction_SenderOnly(taskId, keys, limit) ==
    IF keys.relayer = NoKeypair \/ keys.gasStation = NoKeypair THEN NoSubmission
    ELSE IF relayer_getValidatedGasBudget(limit).nan THEN NoSubmission
    ELSE LET txBytes == [task |-> taskId, sender |-> toSuiAddress(keys.relayer),
                         gasOwner |-> toSuiAddress(keys.gasStation),
                         gasBudget |-> relayer_getValidatedGasBudget(limit).value]
         IN  [mode |-> "sponsored", bytes |-> txBytes,
              signatures |-> <<Signature(keys.relayer, txBytes)>>]

\* lines 188-228: sender, gas owner and budget are set, the bytes are built
\* once and both keypairs sign them.  A budget that is not a number cannot
\* be serialised: the build throws and nothing is submitted.
executeSponsoredTransaction(taskId, keys, limit) ==
    IF keys.relayer = NoKeypair \/ keys.gasStation = NoKeypair THEN NoSubmission
    ELSE IF relayer_getValidatedGasBudget(limit).nan THEN NoSubmission
    ELSE LET txBytes == [task |-> taskId, sender |-> toSuiAddress(keys.relayer),
                         gasOwner |-> toSuiAddress(keys.gasStation),
                         gasBudget |-> relayer_getValidatedGasBudget(limit).value]
         IN  [mode |-> "sponsored", bytes |-> txBytes,
              signatures |-> <<Signature(keys.relayer, txBytes),
                               Signature(keys.gasStation, txBytes)>>]

\* what the SDK puts in a transaction whose budget the caller never set: its
\* own estimate, which knows nothing of the relayer's window
SdkGasBudgets == {2000000, 8000000}

\* lines 233-254: signAndExecuteTransaction, the signer is sender and pays the
\* gas; setGasBudget is not called
executeDirectTransaction(taskId, keys, sdkBudget) ==
    IF keys.relayer = NoKeypair THEN NoSubmission
    ELSE LET txBytes == [task |-> taskId, sender |-> toSuiAddress(keys.relayer),
                         gasOwner |-> toSuiAddress(keys.relayer), gasBudget |-> sdkBudget]
         IN  [mode |-> "direct", bytes |-> txBytes,
              signatures |-> <<Signature(keys.relayer, txBytes)>>]

\* lines 154-182
executeTask(taskId, keys, limit, sdkBudget) ==
    IF keys.relayer = NoKeypair THEN NoSubmission
    ELSE IF keys.gasStation # NoKeypair THEN executeSponsoredTransaction(taskId, keys, limit)
    ELSE executeDirectTransaction(taskId, keys, sdkBudget)

\* relayer.ts loads: lines 12-14 and 63-88
SpLoad ==
    /\ ypc = "idle"
    /\ ~spLoaded
    /\ \E relayerEnv \in RelayerKeyEnvs, gasStationEnv \in GasStationKeyEnvs,
          gasEnv \in SponsorGasEnvs :
          /\ spKeys' = [relayer |-> loadKeypair(relayerEnv),
                        gasStation |-> loadKeypair(gasStationEnv)]
          /\ spLimit' = GAS_BUDGET_LIMIT(gasEnv)
    /\ spLoaded' = TRUE
    /\ UNCHANGED spSubmitted
    /\ UNCHANGED ledgerVars
    /\ UNCHANGED notSponsor

SpCreateTask ==
    /\ ypc = "idle"
    /\ nextId <= MaxTasks
    /\ \E recipient \in SponsorRecipients, execute_at \in Times, payment \in PaymentValues :
          LET out == create_task(payment, recipient, execute_at, DefaultMinRelayerFee,
                                 EmptyBytes, SponsorUser)
          IN  Apply(out, Call("create_task", nextId, out))

SpTick ==
    /\ ypc = "idle"
    /\ Tick

\* executeTask for a task id a scan yielded; the task may have changed since
SpExecuteTask ==
    /\ ypc = "idle"
    /\ spLoaded
    /\ \E taskId \in 1 .. (nextId - 1), reached \in BOOLEAN, sdkBudget \in SdkGasBudgets :
          LET sub == executeTask(taskId, spKeys, spLimit, sdkBudget)
              out == execute_task(taskId, sub.bytes.sender)
          IN  IF sub.mode = "none" \/ ~reached
              THEN \* returned early, or threw before the node had the transaction
                   /\ spSubmitted' = NoSubmission
                   /\ lastCall' = NoCall
                   /\ adminSender' = NoSender
                   /\ UNCHANGED <<ledger, clock>>
              ELSE /\ spSubmitted' = sub
                   /\ tasks' = out.tasks
                   /\ registry' = out.registry
                   /\ events' = out.events
                   /\ transfers' = out.transfers
                   /\ deposits' = out.deposits
                   /\ nextId' = out.nextId
                   /\ lastCall' = Call("execute_task", taskId, out)
                   /\ adminSender' = NoSender
                   /\ UNCHANGED <<capOwner, clock>>
    /\ UNCHANGED <<spLoaded, spKeys, spLimit>>
    /\ UNCHANGED notSponsor

----------------------------------------------------------------------------
(* OptimisticExecutor as an object: start(), stop() and the activations   *)
(* of loop().  An activation is scanning (inside scanAndExecute),         *)
(* sleeping (awaiting the scanInterval timer) or has left its while loop. *)
NotReady == [client |-> FALSE, keypair |-> FALSE]

\* process.env as initialize() reads it: both ids present or not, and the key
ExecutorEnvs == [ids : BOOLEAN, key : {"unset", "bad", RelayerKey}]

\* lines 39-68
initialize(env, ready) ==
    IF ~env.ids THEN ready
    ELSE IF env.key = "unset" THEN [ready EXCEPT !.client = TRUE]
    ELSE [client |-> TRUE, keypair |-> (env.key \in ValidKeys)]

InitLoop ==
    /\ exRunning = FALSE
    /\ exReady = NotReady
    /\ exLoops = << >>
    /\ exCall = "none"

Active(loops) == {i \in DOMAIN loops : loops[i] # "exited"}

\* lines 28-33: loop() runs up to its first await, inside scanAndExecute
ExStart ==
    /\ \E env \in ExecutorEnvs :
          IF exRunning
          THEN /\ exCall' = "start ignored"
               /\ UNCHANGED <<exRunning, exReady, exLoops>>
          ELSE /\ Len(exLoops) < MaxLoops
               /\ exRunning' = TRUE
               /\ exReady' = initialize(env, exReady)
               /\ exLoops' = Append(exLoops, "scanning")
               /\ exCall' = "start"
    /\ UNCHANGED notLoop

\* lines 35-37
ExStop ==
    /\ exRunning' = FALSE
    /\ exCall' = "stop"
    /\ UNCHANGED <<exReady, exLoops>>
    /\ UNCHANGED notLoop

\* lines 73-78: scanAndExecute settles, the activation awaits the timer
ExScanSettles ==
    /\ \E i \in DOMAIN exLoops :
          /\ exLoops[i] = "scanning"
          /\ exLoops' = [exLoops EXCEPT ![i] = "sleeping"]
    /\ exCall' = "none"
    /\ UNCHANGED <<exRunning, exReady>>
    /\ UNCHANGED notLoop

\* lines 72, 78: the timer fires and the while condition is read again
ExTimerFires ==
    /\ \E i \in DOMAIN exLoops :
          /\ exLoops[i] = "sleeping"
          /\ exLoops' = [exLoops EXCEPT ![i] = IF exRunning THEN "scanning" ELSE "exited"]
    /\ exCall' = "none"
    /\ UNCHANGED <<exRunning, exReady>>
    /\ UNCHANGED notLoop

----------------------------------------------------------------------------
(* OptimisticExecutor.scanAndExecute, whole: the two reads, the due list,  *)
(* and the for loop that settles each due task with one transaction.       *)
(* A task's metadata is the text the bytes decode to, written as the JSON  *)
(* value it parses to: nothing, text JSON.parse rejects, a value that is   *)
(* not an object, or an object with the fields the parsers look at.        *)
Metadata(kind, autoAmm, version, protocol, complete) ==
    [kind |-> kind, autoAmm |-> autoAmm, version |-> version, protocol |-> protocol,
     complete |-> complete]
NoMetadata == Metadata("empty", FALSE, 0, "", FALSE)
NoVersion == 0
MetadataTexts ==
    { NoMetadata,
      Metadata("malformed", FALSE, NoVersion, "", FALSE),
      Metadata("scalar", FALSE, NoVersion, "", FALSE),
      Metadata("object", TRUE, 1, "navi", TRUE),
      Metadata("object", TRUE, 2, "navi", TRUE),
      Metadata("object", TRUE, NoVersion, "suilend", FALSE),
      Metadata("object", FALSE, 1, "navi", TRUE),
      Metadata("object", TRUE, 1, "aave", TRUE) }

YieldProtocols == {"scallop", "navi", "cetus", "suilend"}
NoProtocol == "null"

\* types.ts:210-257, reduced to whether it accepts the text
parseAutoAmmMetadata(text) ==
    /\ text.kind = "object"
    /\ text.autoAmm
    /\ text.version = 1
    /\ text.complete
    /\ text.protocol \in YieldProtocols

\* lines 113-132
parseAutoAmmProtocol(text) ==
    IF text.kind \in {"empty", "malformed", "scalar"} THEN NoProtocol
    ELSE IF ~text.autoAmm THEN NoProtocol
    ELSE IF text.protocol \in YieldProtocols THEN text.protocol
    ELSE NoProtocol

\* the due tasks as extractTaskFields returns them: id and metadataText
withMetadata(live, ids) ==
    [i \in 1 .. Len(ids) |-> [taskId |-> ids[i], metadataText |-> live[ids[i]].metadata]]

NoAttempt ==
    [task |-> 0, metadataText |-> NoMetadata, selectedProtocol |-> NoProtocol,
     budgetSet |-> FALSE, outcome |-> "none", code |-> 0]

ExecutorUser == "alice"
ExecutorRelayer == "relayer"
ExecutorRecipient == "bob"
ExecutorTimes == {1, 2}

InitExecutor ==
    /\ exPc = "idle"
    /\ exIds = << >>
    /\ exQueue = << >>
    /\ exLast = NoAttempt

\* scanAndExecute returns: the activation goes on to await its timer
Settle ==
    /\ exPc' = "idle"
    /\ exIds' = << >>
    /\ exQueue' = << >>
    /\ exLoops' = <<"sleeping">>

ExCreateTask ==
    /\ nextId <= MaxTasks
    /\ \E execute_at \in ExecutorTimes, metadata \in MetadataTexts :
          LET out == create_task(ScanPayment, ExecutorRecipient, execute_at, ScanFee, metadata,
                                 ExecutorUser)
          IN  Apply(out, Call("create_task", nextId, out))

ExCancelTask ==
    \E id \in DOMAIN tasks :
        LET out == cancel_task(id, ExecutorUser)
        IN  Apply(out, Call("cancel_task", id, out))

\* the one start() of index.ts
ExBoot ==
    /\ ~exRunning
    /\ ExStart

\* lines 155-172
ExQueryEvents ==
    /\ exLoops = <<"scanning">>
    /\ exPc = "idle"
    /\ IF ~exReady.client
       THEN Settle
       ELSE IF queryEvents(events) = << >>
       THEN Settle
       ELSE /\ exIds' = queryEvents(events)
            /\ exPc' = "objects"
            /\ UNCHANGED <<exQueue, exLoops>>
    /\ exCall' = "none"
    /\ UNCHANGED <<exRunning, exReady, exLast>>
    /\ UNCHANGED ledgerVars
    /\ UNCHANGED notExecutor

\* lines 174-196, with now the value Date.now() returns
FetchObjects(now) ==
    /\ exPc = "objects"
    /\ LET due == withMetadata(tasks, dueTasks(multiGetObjects(tasks, exIds), now))
       IN  IF due = << >> \/ ~exReady.keypair
           THEN Settle
           ELSE /\ exQueue' = due
                /\ exPc' = "submit"
                /\ UNCHANGED <<exIds, exLoops>>
    /\ exCall' = "none"
    /\ UNCHANGED <<exRunning, exReady, exLast>>
    /\ UNCHANGED ledgerVars
    /\ UNCHANGED notExecutor

ExFetchObjects ==
    /\ exPc = "objects"
    /\ \E now \in WallClocks : FetchObjects(now)

\* lines 204-239: one turn of the for loop.  Both builders make the same
\* execute_task call and none sets a gas budget; whatever the outcome, it is
\* logged and the loop goes on.
ExSubmit ==
    /\ exPc = "submit"
    /\ \E reached \in BOOLEAN, thrown \in BOOLEAN :
          LET task == Head(exQueue)
              out == execute_task(task.taskId, ExecutorRelayer)
              attempt == [task |-> task.taskId, metadataText |-> task.metadataText,
                          selectedProtocol |-> parseAutoAmmProtocol(task.metadataText),
                          budgetSet |-> FALSE, outcome |-> "none", code |-> 0]
          IN  IF ~reached
              THEN \* the RPC request fails
                   /\ exLast' = [attempt EXCEPT !.outcome = "threw"]
                   /\ lastCall' = NoCall
                   /\ UNCHANGED ledger
              ELSE /\ exLast' = [attempt EXCEPT
                                    !.outcome = IF out.status = "success" THEN "success"
                                                ELSE IF thrown THEN "threw" ELSE "failure",
                                    !.code = out.code]
                   /\ tasks' = out.tasks
                   /\ registry' = out.registry
                   /\ events' = out.events
                   /\ transfers' = out.transfers
                   /\ deposits' = out.deposits
                   /\ nextId' = out.nextId
                   /\ lastCall' = Call("execute_task", task.taskId, out)
                   /\ UNCHANGED capOwner
    /\ IF Tail(exQueue) = << >>
       THEN Settle
       ELSE /\ exQueue' = Tail(exQueue)
            /\ UNCHANGED <<exPc, exIds, exLoops>>
    /\ adminSender' = NoSender
    /\ exCall' = "none"
    /\ UNCHANGED <<clock, exRunning, exReady>>
    /\ UNCHANGED notExecutor

\* the scanInterval timer of the one activation
ExWake ==
    /\ exLoops = <<"sleeping">>
    /\ exRunning
    /\ exLoops' = <<"scanning">>
    /\ exCall' = "none"
    /\ UNCHANGED <<exRunning, exReady, exPc, exIds, exQueue, exLast>>
    /\ UNCHANGED ledgerVars
    /\ UNCHANGED notExecutor

(* The executor started on a ledger that already holds its payments: the  *)
(* first task falls due, the ones created after it lie further ahead, and *)
(* the executor's wall clock agrees with the ledger clock.                *)
RlCreateTask ==
    /\ ~exRunning
    /\ clock = 0
    /\ nextId <= MaxBacklog
    /\ LET out == create_task(ScanPayment, ExecutorRecipient,
                              IF nextId = 1 THEN 1 ELSE MaxClock + 1, ScanFee, NoMetadata,
                              ExecutorUser)
       IN  Apply(out, Call("create_task", nextId, out))

\* Date.now() read off the chain's clock
RlFetchObjects ==
    /\ exPc = "objects"
    /\ FetchObjects(clock)

Next ==
    \/ CreateTask
    \/ ExecuteTask
    \/ CancelTask
    \/ RescheduleTask
    \/ MarkTaskFailed
    \/ Pause
    \/ Unpause
    \/ Tick

Init ==
    /\ InitLedger /\ InitComposer /\ InitRetry /\ InitConfig /\ InitScan /\ InitClassify
    /\ InitSponsor
    /\ InitLoop
    /\ InitExecutor

Spec == Init /\ [][Next]_vars

\* one yield settlement, the contract left alone
NextYield == YStart \/ YWithdraw \/ YSwap \/ YTransfer \/ YSubmit

\* the contract with every admin function, called by the deployer and by a relayer
NextAdmin ==
    \/ CreateTask
    \/ ExecuteTask
    \/ CancelTask
    \/ RescheduleTask
    \/ MarkTaskFailed
    \/ Pause
    \/ Unpause
    \/ SetMinRelayerFee
    \/ UpdateAdmin
    \/ Tick

SpecAdmin == Init /\ [][NextAdmin]_vars

\* the executor's scan beside the contract's task operations
NextScan ==
    \/ ScanCreateTask
    \/ ScanExecuteTask
    \/ ScanCancelTask
    \/ ScanMarkTaskFailed
    \/ ScanTick
    \/ ScanQueryEvents
    \/ ScanFetchObjects
    \/ ScanReturn

SpecScan == Init /\ [][NextScan]_vars

\* the relayer's execute_task submissions, and one yield settlement, one at a time
NextSponsor ==
    \/ SpLoad
    \/ SpCreateTask
    \/ SpTick
    \/ SpExecuteTask
    \/ (~spLoaded /\ nextId = 1 /\ clock = 0 /\ NextYield)

SpecSponsor == Init /\ [][NextSponsor]_vars

\* calls on one executor object and the progress of its loops
NextLoop == ExStart \/ ExStop \/ ExScanSettles \/ ExTimerFires

SpecLoop == Init /\ [][NextLoop]_vars

\* one started executor beside the ledger
NextExecutor ==
    \/ ExBoot
    \/ ExCreateTask
    \/ ExCancelTask
    \/ Pause
    \/ Unpause
    \/ Tick
    \/ ExQueryEvents
    \/ ExFetchObjects
    \/ ExSubmit
    \/ ExWake

SpecExecutor == Init /\ [][NextExecutor]_vars

\* the started executor, scheduled for ever, beside a growing ledger
NextRelease ==
    \/ ExBoot
    \/ RlCreateTask
    \/ Tick
    \/ ExQueryEvents
    \/ RlFetchObjects
    \/ ExSubmit
    \/ ExWake

\* the event loop runs every continuation and every timer of the loop
FairRelease ==
    /\ WF_vars(ExBoot)
    /\ WF_vars(ExQueryEvents)
    /\ WF_vars(RlFetchObjects)
    /\ WF_vars(ExSubmit)
    /\ WF_vars(ExWake)

SpecRelease == Init /\ [][NextRelease]_vars /\ FairRelease

\* failures arriving at the classifier
NextClassify == ErrorArrives \/ ClassifyError

SpecClassify == Init /\ [][NextClassify]_vars

SpecYield == Init /\ [][NextYield]_vars

\* the retry queue and the runtime's timers
NextRetry == ScheduleRetry \/ CancelRetry \/ TimerFires

SpecRetry == Init /\ [][NextRetry]_vars

\* the gas configuration of the two executors
NextConfig == Configure \/ LoadRelayer \/ GetValidatedGasBudget \/ RelayerGetValidatedGasBudget

SpecConfig == Init /\ [][NextConfig]_vars

TypeOK ==
    /\ nextId \in 1 .. (MaxTasks + 1)
    /\ clock \in 0 .. MaxClock
    /\ DOMAIN tasks \subseteq 1 .. (nextId - 1)

----------------------------------------------------------------------------
(* Vocabulary of the properties *)

Created == 1 .. (nextId - 1)

\* the outcome leaves the ledger exactly as it is
NoEffect(out) ==
    /\ out.tasks = tasks
    /\ out.registry = registry
    /\ out.events = events
    /\ out.transfers = transfers
    /\ out.deposits = deposits
    /\ out.nextId = nextId

Rejected(out, code) == out.status = "abort" /\ out.code = code /\ NoEffect(out)

EventsOf(type, id) ==
    {i \in DOMAIN events : events[i].type = type /\ events[i].task_id = id}

Terminal(id) == EventsOf("TaskExecuted", id) \cup EventsOf("TaskCancelled", id) # {}

RECURSIVE SumOut(_, _, _)
SumOut(log, id, n) ==
    IF n = 0 THEN 0
    ELSE SumOut(log, id, n - 1) + (IF log[n].task = id THEN log[n].value ELSE 0)

\* everything transferred out of task id so far
PaidOut(id) == SumOut(transfers, id, Len(transfers))

----------------------------------------------------------------------------
(* C1: at-most-once payout.  For every task id there is at most one        *)
(* TaskExecuted event, the funds transferred out of the task never exceed  *)
(* the payment it escrowed (principal + fee), and once the task has been   *)
(* executed every further execute_task on that id, by any caller, fails    *)
(* and leaves the ledger unchanged.                                        *)
C1_AtMostOncePayout ==
    \A id \in Created :
        /\ Cardinality(EventsOf("TaskExecuted", id)) <= 1
        /\ PaidOut(id) <= deposits[id]
        /\ EventsOf("TaskExecuted", id) # {} =>
              \A sender \in Addr :
                  LET out == execute_task(id, sender)
                  IN  out.status # "success" /\ NoEffect(out)

\* a second execute_task on an executed task has just been refused
C1_Witness ==
    /\ lastCall.fn = "execute_task"
    /\ lastCall.status = "deleted"
    /\ EventsOf("TaskExecuted", lastCall.task) # {}
    /\ PaidOut(lastCall.task) = deposits[lastCall.task]

(* C2: create_task success.  With the registry unpaused, execute_at later  *)
(* than the clock, fee_amount >= min_relayer_fee and payment > fee_amount, *)
(* create_task succeeds and adds one task that is Pending with principal   *)
(* payment - fee_amount, relayer fee fee_amount, attempt_count 0 and       *)
(* created_at the clock; total_tasks_created grows by exactly 1.           *)
C2_CreateSuccess ==
    \A sender \in Senders, payment \in PaymentValues, recipient \in Recipients,
       execute_at \in Times, fee_amount \in FeeValues :
        ( /\ ~registry.is_paused
          /\ execute_at > clock
          /\ fee_amount >= registry.min_relayer_fee
          /\ payment > fee_amount )
        => LET out == create_task(payment, recipient, execute_at, fee_amount, EmptyBytes, sender)
               new == (DOMAIN out.tasks) \ (DOMAIN tasks)
           IN  /\ out.status = "success"
               /\ Cardinality(new) = 1
               /\ \A id \in DOMAIN tasks : id \in DOMAIN out.tasks /\ out.tasks[id] = tasks[id]
               /\ \A id \in new :
                     /\ out.tasks[id].status = STATUS_PENDING
                     /\ out.tasks[id].balance = payment - fee_amount
                     /\ out.tasks[id].relayer_fee = fee_amount
                     /\ out.tasks[id].attempt_count = 0
                     /\ out.tasks[id].created_at = clock
                     /\ out.tasks[id].execute_at = execute_at
                     /\ out.tasks[id].sender = sender
                     /\ out.tasks[id].recipient = recipient
               /\ out.registry.total_tasks_created = registry.total_tasks_created + 1

\* a task has just been created from a payment of 3_000_000 with a fee of 1_000_000
C2_Witness ==
    /\ lastCall.fn = "create_task"
    /\ lastCall.status = "success"
    /\ lastCall.task \in DOMAIN tasks
    /\ deposits[lastCall.task] = 3000000
    /\ tasks[lastCall.task].balance = 2000000
    /\ tasks[lastCall.task].relayer_fee = 1000000
    /\ tasks[lastCall.task].status = STATUS_PENDING
    /\ registry.total_tasks_created = 1

(* C3: execute_task success.  With the registry unpaused, on a Pending     *)
(* task whose execute_at has been reached, execute_task succeeds: it       *)
(* transfers exactly the principal to the recipient and exactly the        *)
(* relayer fee to the transaction sender, deletes the task, adds 1 to      *)
(* total_tasks_executed and leaves every other registry field unchanged.   *)
C3_ExecuteSuccess ==
    \A id \in DOMAIN tasks, sender \in Addr :
        ( /\ ~registry.is_paused
          /\ tasks[id].status = STATUS_PENDING
          /\ clock >= tasks[id].execute_at )
        => LET out == execute_task(id, sender)
           IN  /\ out.status = "success"
               /\ out.transfers = transfers \o
                     << [task |-> id, to |-> tasks[id].recipient, value |-> tasks[id].balance],
                        [task |-> id, to |-> sender, value |-> tasks[id].relayer_fee] >>
               /\ DOMAIN out.tasks = (DOMAIN tasks) \ {id}
               /\ \A k \in DOMAIN out.tasks : out.tasks[k] = tasks[k]
               /\ out.registry = [registry EXCEPT !.total_tasks_executed = @ + 1]

\* the relayer has just executed a task: bob got the principal, the relayer the fee
C3_Witness ==
    /\ lastCall.fn = "execute_task"
    /\ lastCall.status = "success"
    /\ lastCall.task \notin DOMAIN tasks
    /\ transfers = << [task |-> lastCall.task, to |-> "bob", value |-> 2000000],
                      [task |-> lastCall.task, to |-> "relayer", value |-> 1000000] >>
    /\ registry.total_tasks_executed = 1

(* C4: cancel_task.  A caller other than the task's sender is refused with *)
(* EUnauthorized and nothing changes; the sender of a Pending task gets    *)
(* one transfer of principal + fee, the task is deleted and                *)
(* total_tasks_cancelled grows by 1; the sender of a task that is not      *)
(* Pending is refused with EInvalidStatus and nothing is refunded.         *)
C4_Cancel ==
    \A id \in DOMAIN tasks, sender \in Addr \cup {Deployer} :
        LET out == cancel_task(id, sender)
        IN  /\ sender # tasks[id].sender => Rejected(out, EUnauthorized)
            /\ (sender = tasks[id].sender /\ tasks[id].status = STATUS_PENDING) =>
                  /\ out.status = "success"
                  /\ out.transfers = Append(transfers,
                        [task |-> id, to |-> tasks[id].sender,
                         value |-> tasks[id].balance + tasks[id].relayer_fee])
                  /\ DOMAIN out.tasks = (DOMAIN tasks) \ {id}
                  /\ \A k \in DOMAIN out.tasks : out.tasks[k] = tasks[k]
                  /\ out.registry = [registry EXCEPT !.total_tasks_cancelled = @ + 1]
            /\ (sender = tasks[id].sender /\ tasks[id].status # STATUS_PENDING) =>
                  Rejected(out, EInvalidStatus)

\* the sender has just cancelled a Pending task and got the whole payment back
C4_Witness ==
    /\ lastCall.fn = "cancel_task"
    /\ lastCall.status = "success"
    /\ lastCall.task \notin DOMAIN tasks
    /\ transfers = << [task |-> lastCall.task, to |-> "alice", value |-> 3000000] >>
    /\ registry.total_tasks_cancelled = 1

(* C5: after mark_task_failed the escrowed principal and fee are still     *)
(* held by the task and the task is recoverable: the sender's cancel_task  *)
(* refunds it, or, after a reschedule and once due on an unpaused          *)
(* registry, execute_task pays it out.                                     *)
C5_FailedTaskRecoverable ==
    \A id \in DOMAIN tasks :
        tasks[id].status = STATUS_FAILED =>
            /\ tasks[id].balance + tasks[id].relayer_fee = deposits[id]
            /\ \/ cancel_task(id, tasks[id].sender).status = "success"
               \/ ( (~registry.is_paused /\ clock >= tasks[id].execute_at) =>
                       \E sender \in Executors : execute_task(id, sender).status = "success" )

(* C6 as stated: execute_task before execute_at on a Pending task fails    *)
(* with ENotReadyYet, and on a task that is not Pending with               *)
(* EInvalidStatus; in both cases the ledger is unchanged.                  *)
C6_ExecuteRejectionsAsStated ==
    \A id \in DOMAIN tasks, sender \in Addr :
        LET out == execute_task(id, sender)
        IN  /\ (tasks[id].status = STATUS_PENDING /\ clock < tasks[id].execute_at) =>
                  Rejected(out, ENotReadyYet)
            /\ tasks[id].status # STATUS_PENDING => Rejected(out, EInvalidStatus)

(* C6 amended: on an unpaused registry, execute_task before execute_at on  *)
(* a Pending task fails with ENotReadyYet and on a task that is not        *)
(* Pending with EInvalidStatus; on a paused registry both fail with        *)
(* EContractPaused; in every case the ledger is unchanged.                 *)
C6_ExecuteRejections ==
    \A id \in DOMAIN tasks, sender \in Addr :
        LET out == execute_task(id, sender)
        IN  /\ (~registry.is_paused /\ tasks[id].status = STATUS_PENDING
                    /\ clock < tasks[id].execute_at) =>
                  Rejected(out, ENotReadyYet)
            /\ (~registry.is_paused /\ tasks[id].status # STATUS_PENDING) =>
                  Rejected(out, EInvalidStatus)
            /\ (registry.is_paused /\ (tasks[id].status # STATUS_PENDING
                                          \/ clock < tasks[id].execute_at)) =>
                  Rejected(out, EContractPaused)

\* execute_task has just been refused with EInvalidStatus on a Failed task that is due
C6_Witness ==
    /\ lastCall.fn = "execute_task"
    /\ lastCall.status = "abort"
    /\ lastCall.code = EInvalidStatus
    /\ ~registry.is_paused
    /\ lastCall.task \in DOMAIN tasks
    /\ tasks[lastCall.task].status = STATUS_FAILED
    /\ clock >= tasks[lastCall.task].execute_at
    /\ transfers = << >>

(* C7 as stated: create_task with execute_at <= clock fails with           *)
(* EInvalidExecutionTime, with fee_amount < min_relayer_fee fails with     *)
(* EFeeTooLow, with payment <= fee_amount fails with EInsufficientFunds;   *)
(* every such rejection leaves the ledger unchanged.                       *)
C7_CreateRejectionsAsStated ==
    \A sender \in Senders, payment \in PaymentValues, recipient \in Recipients,
       execute_at \in Times, fee_amount \in FeeValues :
        LET out == create_task(payment, recipient, execute_at, fee_amount, EmptyBytes, sender)
        IN  /\ execute_at <= clock => Rejected(out, EInvalidExecutionTime)
            /\ fee_amount < registry.min_relayer_fee => Rejected(out, EFeeTooLow)
            /\ payment <= fee_amount => Rejected(out, EInsufficientFunds)

(* C7 amended: the checks run in the order paused, execution time, fee,    *)
(* funds, and the first one that fails names the error: on an unpaused     *)
(* registry execute_at <= clock fails with EInvalidExecutionTime;          *)
(* otherwise fee_amount < min_relayer_fee fails with EFeeTooLow; otherwise *)
(* payment <= fee_amount fails with EInsufficientFunds; on a paused        *)
(* registry all of them fail with EContractPaused.  Every rejection leaves *)
(* the ledger unchanged: no task, no locked funds, no counter change.      *)
C7_CreateRejections ==
    \A sender \in Senders, payment \in PaymentValues, recipient \in Recipients,
       execute_at \in Times, fee_amount \in FeeValues :
        LET out == create_task(payment, recipient, execute_at, fee_amount, EmptyBytes, sender)
            badTime == execute_at <= clock
            badFee == fee_amount < registry.min_relayer_fee
            badFunds == payment <= fee_amount
        IN  /\ (~registry.is_paused /\ badTime) => Rejected(out, EInvalidExecutionTime)
            /\ (~registry.is_paused /\ ~badTime /\ badFee) => Rejected(out, EFeeTooLow)
            /\ (~registry.is_paused /\ ~badTime /\ ~badFee /\ badFunds) =>
                  Rejected(out, EInsufficientFunds)
            /\ (registry.is_paused /\ (badTime \/ badFee \/ badFunds)) =>
                  Rejected(out, EContractPaused)

\* create_task has just been refused with EInsufficientFunds: nothing was created
C7_Witness ==
    /\ lastCall.fn = "create_task"
    /\ lastCall.status = "abort"
    /\ lastCall.code = EInsufficientFunds
    /\ ~registry.is_paused
    /\ tasks = << >>
    /\ deposits = << >>
    /\ registry.total_tasks_created = 0
    /\ registry.total_volume = 0
    /\ registry.total_fees_paid = 0

(* C8: terminal states are final.  Once a task id has a TaskExecuted or    *)
(* TaskCancelled event, no step gives it another status, no execute_task,  *)
(* cancel_task, reschedule_task or mark_task_failed on that id succeeds,   *)
(* no further funds are transferred out of it and no further event is      *)
(* emitted for it.                                                         *)
C8_Step ==
    \A id \in Created :
        Terminal(id) =>
            /\ id \in DOMAIN tasks' => (id \in DOMAIN tasks /\ tasks'[id] = tasks[id])
            /\ id \in DOMAIN tasks => tasks[id].status \in {STATUS_EXECUTED, STATUS_CANCELLED}
            /\ PaidOut(id)' = PaidOut(id)
            /\ EventsOf("TaskExecuted", id)' = EventsOf("TaskExecuted", id)
            /\ EventsOf("TaskCancelled", id)' = EventsOf("TaskCancelled", id)
            /\ EventsOf("TaskFailed", id)' = EventsOf("TaskFailed", id)
            /\ ( /\ lastCall'.task = id
                 /\ lastCall'.fn \in {"execute_task", "cancel_task",
                                      "reschedule_task", "mark_task_failed"} )
               => lastCall'.status # "success"

C8_TerminalIsFinal == [][C8_Step]_vars

\* reschedule_task has just been refused on a task that was cancelled
C8_Witness ==
    /\ lastCall.fn = "reschedule_task"
    /\ lastCall.status = "deleted"
    /\ EventsOf("TaskCancelled", lastCall.task) # {}
    /\ lastCall.task \notin DOMAIN tasks

(* C9: every step taken from a paused registry that is a create_task or   *)
(* an execute_task call is refused with EContractPaused (an execute_task   *)
(* on an already deleted task never reaches the function) and changes      *)
(* nothing; no step taken from a paused registry creates a task, emits     *)
(* TaskExecuted or changes total_tasks_created or total_tasks_executed.    *)
C9_Step ==
    registry.is_paused =>
        /\ lastCall'.fn = "create_task" =>
              /\ lastCall'.status = "abort"
              /\ lastCall'.code = EContractPaused
              /\ UNCHANGED ledger
        /\ lastCall'.fn = "execute_task" =>
              /\ IF lastCall'.task \in DOMAIN tasks
                 THEN lastCall'.status = "abort" /\ lastCall'.code = EContractPaused
                 ELSE lastCall'.status = "deleted"
              /\ UNCHANGED ledger
        /\ registry'.total_tasks_created = registry.total_tasks_created
        /\ registry'.total_tasks_executed = registry.total_tasks_executed
        /\ DOMAIN tasks' \subseteq DOMAIN tasks
        /\ nextId' = nextId
        /\ \A id \in Created :
              EventsOf("TaskExecuted", id)' = EventsOf("TaskExecuted", id)

C9_PausedBlocksCreateAndExecute == [][C9_Step]_vars

\* execute_task has just been refused with EContractPaused on a due Pending task
C9_Witness ==
    /\ registry.is_paused
    /\ lastCall.fn = "execute_task"
    /\ lastCall.status = "abort"
    /\ lastCall.code = EContractPaused
    /\ lastCall.task \in DOMAIN tasks
    /\ tasks[lastCall.task].status = STATUS_PENDING
    /\ clock >= tasks[lastCall.task].execute_at
    /\ registry.total_tasks_executed = 0

----------------------------------------------------------------------------
(* C10: atomic settlement.  When the swap step of a yield settlement throws *)
(* after the withdraw step was appended, the invocation ends with the       *)
(* swap's error, no transfer is appended and nothing is submitted; nothing  *)
(* is submitted unless withdraw, optional swap and transfer were all built; *)
(* on the ledger the relayer never holds a withdrawn or swapped coin, and   *)
(* either the withdraw, the swap (when one is configured) and the transfer  *)
(* to the target all took effect, or the position and the target are        *)
(* exactly as before.                                                       *)
SwapLimit(tx) ==
    LET swaps == {i \in DOMAIN tx.cmds : tx.cmds[i].op = "swap"}
    IN  IF swaps = {} THEN 0 ELSE tx.cmds[CHOOSE i \in swaps : TRUE].limit

C10_AtomicSettlement ==
    /\ ySteps.swap = "threw" =>
          /\ ypc = "failed"
          /\ yError # ""
          /\ ySteps.transfer = "none"
          /\ ySubmitted = << >>
    /\ ypc = "swap" =>
          \A oracle \in SwapOracles :
             LET ctx == [network |-> yEnv.network]
                 req == [config |-> yStrategy.swapConfig, inputCoin |-> yWithdrawn,
                         amountIn |-> yStrategy.amount, network |-> yEnv.network]
                 res == swapStage(yTx, yWithdrawn, yStrategy, ctx, oracle)
             IN  (yStrategy.swapConfig # NoSwap /\ ~appendCetusSwapStep(yTx, req, oracle).ok)
                    => ~res.ok /\ res.error # "" /\ res.coins = << >>
    /\ ySubmitted # << >> =>
          /\ ySteps.withdraw = "ok"
          /\ ySteps.swap = (IF yStrategy.swapConfig = NoSwap THEN "skipped" ELSE "ok")
          /\ ySteps.transfer = "ok"
    /\ ySubmitted = << >> => yChain = InitChain(yChain.position0)
    /\ yChain.relayerIn = 0 /\ yChain.relayerOut = 0
    /\ LET withdrawn == yChain.position0 - yChain.position
       IN  IF yChain.status = "success"
           THEN /\ withdrawn > 0
                /\ IF yStrategy.swapConfig = NoSwap
                   THEN yChain.targetIn = withdrawn /\ yChain.targetOut = 0
                   ELSE /\ yChain.targetIn = withdrawn - yStrategy.amount
                        /\ yChain.targetOut >= SwapLimit(yTx)
                        /\ yChain.targetOut > 0
           ELSE withdrawn = 0 /\ yChain.targetIn = 0 /\ yChain.targetOut = 0

\* the swap step threw on its slippage floor after the withdraw was appended
C10_Witness ==
    /\ ypc = "failed"
    /\ ySteps.withdraw = "ok"
    /\ ySteps.swap = "threw"
    /\ yError = "Computed minOut is <= 0"
    /\ \E i \in DOMAIN yTx.cmds : yTx.cmds[i].op = "withdraw"
    /\ ySubmitted = << >>

----------------------------------------------------------------------------
(* C11: no leaked handle.  In every transaction the composer has finished *)
(* building, the last command is the one transfer, it goes to the         *)
(* strategy's target address and it carries the withdrawn coin when there *)
(* is no swap and both coins the swap step returned when there is one;    *)
(* every handle a command produced is used by exactly one later command;  *)
(* the commands come in the order withdraw, optional swap, transfer.      *)
Produced(tx) ==
    UNION { IF tx.cmds[i].op \in {"withdraw", "redeem", "mint_zero"} THEN {<<i, 1>>}
            ELSE IF tx.cmds[i].op = "swap" THEN {<<i, 1>>, <<i, 2>>}
            ELSE {} : i \in DOMAIN tx.cmds }

Uses(tx, h) ==
    {<<i, k>> \in (DOMAIN tx.cmds) \X {1, 2} :
        k \in DOMAIN tx.cmds[i].args /\ tx.cmds[i].args[k] = h}

IndexOf(tx, ops) == {i \in DOMAIN tx.cmds : tx.cmds[i].op \in ops}

C11_NoLeakedHandle ==
    ySteps.transfer = "ok" =>
        LET n == Len(yTx.cmds)
            last == yTx.cmds[n]
            withdraws == IndexOf(yTx, {"withdraw", "redeem"})
            swaps == IndexOf(yTx, {"swap"})
        IN  /\ IndexOf(yTx, {"transfer"}) = {n}
            /\ last.to = yStrategy.targetAddress
            /\ last.args = yCoins
            /\ Cardinality(withdraws) = 1
            /\ IF yStrategy.swapConfig = NoSwap
               THEN swaps = {} /\ last.args = <<yWithdrawn>>
               ELSE /\ Cardinality(swaps) = 1
                    /\ \A w \in withdraws, s \in swaps :
                          /\ w < s /\ s < n
                          /\ yWithdrawn \in Range(yTx.cmds[s].args)
                          /\ last.args = << <<s, 1>>, <<s, 2>> >>
            /\ yWithdrawn \in {<<w, 1>> : w \in withdraws}
            /\ \A h \in Produced(yTx) :
                  /\ Cardinality(Uses(yTx, h)) = 1
                  /\ \A u \in Uses(yTx, h) : u[1] > h[1]

\* a swap was built: both of its coins, the counter-asset included, are transferred
C11_Witness ==
    /\ ypc = "submit"
    /\ ySteps.swap = "ok"
    /\ ySteps.transfer = "ok"
    /\ Len(yTx.cmds[Len(yTx.cmds)].args) = 2
    /\ yTx.cmds[Len(yTx.cmds)].op = "transfer"

----------------------------------------------------------------------------
(* C12: the RetryQueue holds at most one pending timer per task id, and  *)
(* the Map names exactly the pending timers; a cleared timer never       *)
(* fires; scheduleRetry for a task id with a pending timer clears that   *)
(* timer and leaves the new one as the id's only pending timer, and it   *)
(* leaves the timers of the other task ids as they were.                 *)
PendingFor(timers, key) == {t \in timers : t.key = key}

C12_Inv ==
    /\ \A key \in TaskIds :
          /\ Cardinality(PendingFor(rqTimers, key)) <= 1
          /\ IF rqQueue[key] = NoTimer
             THEN PendingFor(rqTimers, key) = {}
             ELSE PendingFor(rqTimers, key) = {[id |-> rqQueue[key], key |-> key]}
    /\ rqFired \cap rqCleared = {}

C12_Step ==
    rqLast'.op = "scheduleRetry" /\ rqLast' # rqLast =>
        /\ PendingFor(rqTimers', rqLast'.key) = {[id |-> rqLast'.timer, key |-> rqLast'.key]}
        /\ \A t \in PendingFor(rqTimers, rqLast'.key) :
              t.id \in rqCleared' /\ t.id = rqLast'.replaced
        /\ \A key \in TaskIds \ {rqLast'.key} :
              PendingFor(rqTimers', key) = PendingFor(rqTimers, key)

C12_OneTimerPerTask == []C12_Inv /\ [][C12_Step]_vars

\* a retry was scheduled over a pending one while the other task id has a timer too
C12_Witness ==
    /\ rqLast.op = "scheduleRetry"
    /\ rqLast.replaced # NoTimer
    /\ rqLast.replaced \in rqCleared
    /\ \E key \in TaskIds \ {rqLast.key} : PendingFor(rqTimers, key) # {}

----------------------------------------------------------------------------
(* C13 as stated: for every GAS_BUDGET_LIMIT, unset and non-numeric ones  *)
(* included, each getValidatedGasBudget returns MAX when the configured   *)
(* value is above MAX, MIN when it is below MIN and the configured value  *)
(* otherwise, so every result is a number in [MIN, MAX].                  *)
InWindow(res) == ~res.nan /\ MIN_GAS_BUDGET <= res.value /\ res.value <= MAX_ALLOWED_GAS_BUDGET

C13_GasBudgetClamp ==
    /\ cfgBudget.called =>
          /\ InWindow(cfgBudget)
          /\ LET configured == getEnvInt(cfgEnv, DEFAULT_GAS_BUDGET)
             IN  cfgBudget.value =
                    (IF configured > MAX_ALLOWED_GAS_BUDGET THEN MAX_ALLOWED_GAS_BUDGET
                     ELSE IF configured < MIN_GAS_BUDGET THEN MIN_GAS_BUDGET
                     ELSE configured)
    /\ cfgRelayerBudget.called => InWindow(cfgRelayerBudget)

----------------------------------------------------------------------------
(* C14 as stated: registry.min_relayer_fee changes only in a step that is *)
(* set_min_relayer_fee sent by the registry's current admin, also after   *)
(* update_admin has replaced the admin.                                   *)
C14_Step ==
    registry'.min_relayer_fee # registry.min_relayer_fee =>
        /\ lastCall'.fn = "set_min_relayer_fee"
        /\ adminSender' = registry.admin

C14_FeeOnlyByAdmin == [][C14_Step]_vars

----------------------------------------------------------------------------
(* C15: task discovery.  A completed scan yields, once each, exactly the  *)
(* tasks referenced by the fetched creation events whose object is live   *)
(* with status Pending and execute_at <= now; deleted, Failed and         *)
(* not-yet-due tasks are not yielded; and running the scan again on the   *)
(* same ledger with the same clock value yields the same set.             *)
Ready(scan) ==
    {id \in Range(scan.ids) :
        /\ id \in DOMAIN scan.live
        /\ scan.live[id].status = STATUS_PENDING
        /\ scan.live[id].execute_at <= scan.now}

----------------------------------------------------------------------------
(* C17: swap slippage bound.  appendCetusSwapStep uses slippageBps, or    *)
(* 100 when it is absent; with slippageBps outside [0, 10000], or with    *)
(* floor(quote * (10000 - slippageBps) / 10000) <= 0, it throws and       *)
(* leaves the transaction as it was; when it returns, the swap command    *)
(* it appended carries amount_limit = that floor, 0 < amount_limit <=     *)
(* quote; and a swap executed on the ledger delivered at least the limit. *)
FloorOut(quote, bps) ==
    CHOOSE k \in 0 .. quote :
        /\ k * 10000 <= quote * (10000 - bps)
        /\ quote * (10000 - bps) < (k + 1) * 10000

SwapCmds(tx) == {tx.cmds[i] : i \in IndexOf(tx, {"swap"})}

C17_SlippageBound ==
    /\ (ypc = "swap" /\ yStrategy.swapConfig.provider = "cetus") =>
          \A oracle \in SwapOracles :
             LET config == yStrategy.swapConfig
                 req == [config |-> config, inputCoin |-> yWithdrawn,
                         amountIn |-> yStrategy.amount, network |-> yEnv.network]
                 res == appendCetusSwapStep(yTx, req, oracle)
                 bps == IF config.hasSlippage THEN config.slippageBps ELSE 100
                 inRange == 0 <= bps /\ bps <= 10000
             IN  /\ ~inRange => ~res.ok /\ res.tx = yTx
                 /\ (inRange /\ FloorOut(oracle.quote, bps) <= 0) => ~res.ok /\ res.tx = yTx
                 /\ ~res.ok => SwapCmds(res.tx) = {}
                 /\ res.ok =>
                       /\ inRange
                       /\ Cardinality(SwapCmds(res.tx)) = 1
                       /\ \A c \in SwapCmds(res.tx) :
                             /\ c.limit = FloorOut(oracle.quote, bps)
                             /\ 0 < c.limit /\ c.limit <= oracle.quote
                             /\ c.amount = yStrategy.amount
    /\ ySteps.swap = "ok" =>
          \A c \in SwapCmds(yTx) :
             /\ c.limit > 0
             /\ yChain.status = "success" => yChain.targetOut >= c.limit

\* a swap was appended with the default 100 bps on a quote of 1000
C17_Witness ==
    /\ ySteps.swap = "ok"
    /\ ~yStrategy.swapConfig.hasSlippage
    /\ \E c \in SwapCmds(yTx) : c.limit = 990

----------------------------------------------------------------------------
(* C18 as stated: every message containing "NotReadyYet" classifies as    *)
(* TimeNotReady and every message containing "paused" classifies as       *)
(* ContractPaused; the result is one of the six kinds, and Unknown when   *)
(* no pattern matches.                                                    *)
MatchesAny(message) ==
    \E p \in {Txt_Insufficient, Txt_network, Txt_Network, Txt_notFound, Txt_objectNotFound,
               Txt_NotReady, Txt_NotReadyYet, Txt_paused, Txt_ContractPaused} :
        includes(message, p)

C18_ClassificationAsStated ==
    clKind # "none" =>
        /\ clKind \in ErrorKinds
        /\ includes(clMessage, Txt_NotReadyYet) => clKind = "TimeNotReady"
        /\ includes(clMessage, Txt_paused) => clKind = "ContractPaused"
        /\ ~MatchesAny(clMessage) => clKind = "Unknown"

(* C18: the patterns are tried in a fixed order and the first that        *)
(* matches names the kind.  A message containing "NotReadyYet"            *)
(* classifies as TimeNotReady unless it contains "Insufficient",          *)
(* "network", "Network" or "not found"; a message containing "paused"     *)
(* classifies as ContractPaused unless it contains one of those or        *)
(* "NotReady"; the result is one of the six kinds, and Unknown exactly    *)
(* when no pattern matches.                                               *)
Earlier(message) ==
    \E p \in {Txt_Insufficient, Txt_network, Txt_Network, Txt_notFound} : includes(message, p)

C18_Classification ==
    clKind # "none" =>
        /\ clKind \in ErrorKinds
        /\ (includes(clMessage, Txt_NotReadyYet) /\ ~Earlier(clMessage))
              => clKind = "TimeNotReady"
        /\ (includes(clMessage, Txt_paused) /\ ~Earlier(clMessage)
              /\ ~includes(clMessage, Txt_NotReady))
              => clKind = "ContractPaused"
        /\ clKind = "Unknown" <=> ~MatchesAny(clMessage)

\* a failure text holding both "NotReadyYet" and "paused" was classified
C18_Witness ==
    /\ clKind = "TimeNotReady"
    /\ includes(clMessage, Txt_NotReadyYet)
    /\ includes(clMessage, Txt_paused)

----------------------------------------------------------------------------
(* C19: task data invariant.  In every reachable state every live task   *)
(* holds a principal > 0 and has execute_at > created_at, whatever        *)
(* create_task, reschedule_task and mark_task_failed calls came before    *)
(* and however the clock advanced.                                        *)
C19_TaskData ==
    \A id \in DOMAIN tasks :
        /\ tasks[id].balance > 0
        /\ tasks[id].execute_at > tasks[id].created_at
        /\ tasks[id].created_at <= clock

\* a task marked failed has just been rescheduled, after the clock moved on
C19_Witness ==
    /\ lastCall.fn = "reschedule_task"
    /\ lastCall.status = "success"
    /\ lastCall.task \in DOMAIN tasks
    /\ tasks[lastCall.task].status = STATUS_FAILED
    /\ tasks[lastCall.task].created_at < clock

----------------------------------------------------------------------------
(* C20: registry counters.  No step of the ledger, admin calls included,  *)
(* lowers total_tasks_created, total_tasks_executed,                      *)
(* total_tasks_cancelled, total_tasks_failed, total_volume or             *)
(* total_fees_paid, and a call that fails leaves all six as they were.    *)
Counters(reg) ==
    <<reg.total_tasks_created, reg.total_tasks_executed, reg.total_tasks_cancelled,
      reg.total_tasks_failed, reg.total_volume, reg.total_fees_paid>>

C20_Step ==
    /\ \A i \in 1 .. 6 : Counters(registry')[i] >= Counters(registry)[i]
    /\ lastCall'.status \in {"abort", "deleted", "refused"} =>
          Counters(registry') = Counters(registry)

C20_CountersMonotonic == [][C20_Step]_vars

\* a cancellation was counted after a creation had added to the volume
C20_Witness ==
    /\ lastCall.fn = "cancel_task"
    /\ lastCall.status = "success"
    /\ registry.total_tasks_cancelled = 1
    /\ registry.total_volume > 0
    /\ registry.total_fees_paid > 0

----------------------------------------------------------------------------
(* C16: sponsored submission.  As stated: a sponsored transaction carries *)
(* the relayer's signature as sender and the gas station's as gas owner,  *)
(* both over the submitted bytes, never one alone; and the gas-paying     *)
(* identity never receives the principal, the relayer fee or a withdrawn  *)
(* coin.                                                                   *)
SponsoredMode == spKeys.relayer # NoKeypair /\ spKeys.gasStation # NoKeypair

BothSigned(sub) ==
    /\ sub.bytes.sender = toSuiAddress(spKeys.relayer)
    /\ sub.bytes.gasOwner = toSuiAddress(spKeys.gasStation)
    /\ sub.signatures = <<Signature(spKeys.relayer, sub.bytes),
                          Signature(spKeys.gasStation, sub.bytes)>>

YieldBothSigned(sub) ==
    /\ sub.tx.sender = RelayerAddress
    /\ sub.tx.gasOwner = GasStationAddress
    /\ sub.signatures = <<"relayer", "gasStation">>

C16_Signatures ==
    /\ (SponsoredMode /\ spSubmitted.mode # "none") =>
          (spSubmitted.mode = "sponsored" /\ BothSigned(spSubmitted))
    /\ \A i \in DOMAIN ySubmitted : yEnv.gasStationKey => YieldBothSigned(ySubmitted[i])

Delivered == SubSeq(transfers', Len(transfers) + 1, Len(transfers'))

SponsoredExecution ==
    /\ spSubmitted'.mode = "sponsored"
    /\ lastCall'.fn = "execute_task"
    /\ lastCall'.status = "success"

TransferTargets(tx) == {tx.cmds[i].to : i \in {j \in DOMAIN tx.cmds : tx.cmds[j].op = "transfer"}}

YieldSponsoredSettled == yEnv.gasStationKey /\ yChain.status = "success"

C16_PayerNeverPaid ==
    /\ SponsoredExecution =>
          \A i \in DOMAIN Delivered : Delivered[i].to # spSubmitted'.bytes.gasOwner
    /\ \A i \in DOMAIN ySubmitted :
          YieldSponsoredSettled => GasStationAddress \notin TransferTargets(ySubmitted[i].tx)

C16_PaidAsDesignated ==
    /\ SponsoredExecution =>
          LET task == tasks[lastCall'.task]
          IN  Delivered =
                << [task |-> lastCall'.task, to |-> task.recipient, value |-> task.balance],
                   [task |-> lastCall'.task, to |-> spSubmitted'.bytes.sender,
                    value |-> task.relayer_fee] >>
    /\ \A i \in DOMAIN ySubmitted :
          YieldSponsoredSettled =>
              TransferTargets(ySubmitted[i].tx) = {yStrategy.targetAddress}

----------------------------------------------------------------------------
(* C21: execute/cancel race.  For every task id at most one of             *)
(* execute_task and cancel_task has succeeded, however the two are         *)
(* interleaved; once the execution has applied every cancel_task is        *)
(* refused and refunds nothing, once the cancellation has applied every    *)
(* execute_task is refused and pays nothing; the whole payment has left    *)
(* the task exactly once, or not at all while neither has succeeded.       *)
C21_ExecuteCancelRace ==
    \A id \in Created :
        LET executed == EventsOf("TaskExecuted", id)
            cancelled == EventsOf("TaskCancelled", id)
        IN  /\ Cardinality(executed) + Cardinality(cancelled) <= 1
            /\ PaidOut(id) = (IF executed \cup cancelled = {} THEN 0 ELSE deposits[id])
            /\ executed # {} =>
                  \A sender \in Addr \cup {Deployer} :
                      LET out == cancel_task(id, sender)
                      IN  out.status # "success" /\ NoEffect(out)
            /\ cancelled # {} =>
                  \A sender \in Addr \cup {Deployer} :
                      LET out == execute_task(id, sender)
                      IN  out.status # "success" /\ NoEffect(out)

\* the sender's cancel_task has just been refused on a task an executor had executed
C21_Witness ==
    /\ lastCall.fn = "cancel_task"
    /\ lastCall.status # "success"
    /\ EventsOf("TaskExecuted", lastCall.task) # {}
    /\ EventsOf("TaskCancelled", lastCall.task) = {}
    /\ PaidOut(lastCall.task) = deposits[lastCall.task]
    /\ Len(transfers) = 2

----------------------------------------------------------------------------
(* C27 as stated: reschedule_task succeeds only on an unpaused registry,   *)
(* for the task's sender or the registry admin, on a Pending task and with *)
(* new_execute_at later than the clock; a refused call aborts with         *)
(* EContractPaused, EUnauthorized or EInvalidExecutionTime and changes     *)
(* nothing; a successful one sets execute_at, clears last_failure_reason   *)
(* and leaves the status (Pending), the principal, the fee, attempt_count  *)
(* and the registry as they were.                                          *)
C27_Reschedule ==
    \A id \in DOMAIN tasks, sender \in Reschedulers \cup Addr, new_execute_at \in Times :
        LET out == reschedule_task(id, new_execute_at, sender)
            allowed == /\ ~registry.is_paused
                       /\ sender = tasks[id].sender \/ sender = registry.admin
                       /\ tasks[id].status = STATUS_PENDING
                       /\ new_execute_at > clock
        IN  /\ out.status = "success" => allowed
            /\ out.status # "success" =>
                  /\ out.status = "abort"
                  /\ out.code \in {EContractPaused, EUnauthorized, EInvalidExecutionTime}
                  /\ NoEffect(out)
            /\ out.status = "success" =>
                  /\ out.tasks = [tasks EXCEPT ![id].execute_at = new_execute_at,
                                               ![id].last_failure_reason = EmptyBytes]
                  /\ out.tasks[id].status = STATUS_PENDING
                  /\ out.tasks[id].balance = tasks[id].balance
                  /\ out.tasks[id].relayer_fee = tasks[id].relayer_fee
                  /\ out.tasks[id].attempt_count = tasks[id].attempt_count
                  /\ out.registry = registry
                  /\ out.transfers = transfers
                  /\ out.events = events

----------------------------------------------------------------------------
(* C30: pausing never blocks a refund.  In every reachable state, paused   *)
(* or not, cancel_task by the original sender of a Pending task succeeds   *)
(* and returns the principal and the fee to that sender.                   *)
C30_CancelWhilePaused ==
    \A id \in DOMAIN tasks :
        tasks[id].status = STATUS_PENDING =>
            LET out == cancel_task(id, tasks[id].sender)
            IN  /\ out.status = "success"
                /\ out.transfers[Len(out.transfers)] =
                      [task |-> id, to |-> tasks[id].sender, value |-> deposits[id]]
                /\ id \notin DOMAIN out.tasks
                /\ out.registry.is_paused = registry.is_paused

\* the sender has just cancelled a Pending task on a paused registry
C30_Witness ==
    /\ registry.is_paused
    /\ lastCall.fn = "cancel_task"
    /\ lastCall.status = "success"
    /\ EventsOf("TaskCancelled", lastCall.task) # {}
    /\ PaidOut(lastCall.task) = deposits[lastCall.task]

----------------------------------------------------------------------------
(* C29: conservation of escrowed funds.  In every reachable state the      *)
(* payments deposited by successful create_task calls equal the principal  *)
(* and fee still held by live tasks plus everything transferred out by     *)
(* execute_task and cancel_task, in total and for each task; no step       *)
(* changes that, and a mark_task_failed or reschedule_task step moves no   *)
(* funds at all.                                                           *)
Held(ts, id) == IF id \in DOMAIN ts THEN ts[id].balance + ts[id].relayer_fee ELSE 0

RECURSIVE TotalDeposited(_, _)
TotalDeposited(dep, n) == IF n = 0 THEN 0 ELSE TotalDeposited(dep, n - 1) + dep[n]

RECURSIVE TotalHeld(_, _)
TotalHeld(ts, n) == IF n = 0 THEN 0 ELSE TotalHeld(ts, n - 1) + Held(ts, n)

RECURSIVE TotalTransferred(_, _)
TotalTransferred(log, n) ==
    IF n = 0 THEN 0 ELSE TotalTransferred(log, n - 1) + log[n].value

C29_Inv ==
    /\ DOMAIN deposits = Created
    /\ \A id \in Created : deposits[id] = Held(tasks, id) + PaidOut(id)
    /\ TotalDeposited(deposits, nextId - 1)
          = TotalHeld(tasks, nextId - 1) + TotalTransferred(transfers, Len(transfers))
    /\ \A i \in DOMAIN transfers : transfers[i].task \in Created /\ transfers[i].value > 0

C29_Step ==
    /\ \A id \in Created : deposits'[id] = deposits[id]
    /\ SubSeq(transfers', 1, Len(transfers)) = transfers
    /\ lastCall'.fn \in {"mark_task_failed", "reschedule_task"} =>
          /\ transfers' = transfers
          /\ deposits' = deposits
          /\ \A id \in Created : Held(tasks', id) = Held(tasks, id)
    /\ lastCall'.fn = "create_task" => transfers' = transfers
    /\ lastCall'.status # "success" =>
          transfers' = transfers /\ \A id \in Created : Held(tasks', id) = Held(tasks, id)

C29_Conservation == []C29_Inv /\ [][C29_Step]_vars

\* mark_task_failed has just succeeded and the task still holds its whole deposit
C29_Witness ==
    /\ lastCall.fn = "mark_task_failed"
    /\ lastCall.status = "success"
    /\ lastCall.task \in DOMAIN tasks
    /\ Held(tasks, lastCall.task) = deposits[lastCall.task]
    /\ deposits[lastCall.task] > 0
    /\ transfers = << >>

----------------------------------------------------------------------------
(* C23 as stated: single loop.  Whatever start() and stop() calls are     *)
(* made, at most one activation of the scan loop is alive at any time: a  *)
(* start() while running adds none, and a stop() followed by a start()    *)
(* does not leave two loops scanning.                                      *)
C23_SingleLoop == Cardinality(Active(exLoops)) <= 1

----------------------------------------------------------------------------
(* C24 as stated: failure handling.  Whenever the executor's submission   *)
(* of a due task fails, the failure is classified and a retry for that    *)
(* task id is pending in the RetryQueue, unless the failure is terminal   *)
(* (the task is consumed or no longer Pending), and then no retry is      *)
(* queued.                                                                 *)
TaskKey(id) == IF id = 1 THEN "0x1" ELSE "0x2"

FailedSubmission == exPc = "submit" /\ exLast'.outcome \in {"failure", "threw"}

TerminalFailure == lastCall'.status = "deleted" \/ lastCall'.code = EInvalidStatus

C24_Step ==
    FailedSubmission =>
        IF TerminalFailure
        THEN rqQueue' = rqQueue
        ELSE /\ clKind' # "none"
             /\ rqQueue'[TaskKey(exLast'.task)] # NoTimer

C24_FailureHandling == [][C24_Step]_vars

(* C25 as stated: metadata decoding.  A due task whose metadata is not a  *)
(* version 1 payload, like one with malformed or absent metadata, is      *)
(* never settled as a yield directive.                                     *)
C25_UnknownVersionIgnored ==
    (exLast.outcome # "none" /\ exLast.metadataText.version # 1) =>
        exLast.selectedProtocol = NoProtocol

----------------------------------------------------------------------------
(* C26 as stated: every settlement transaction handed to the node, direct *)
(* or sponsored, plain or yield, carries a gas budget between             *)
(* MIN_GAS_BUDGET and MAX_ALLOWED_GAS_BUDGET, whatever GAS_BUDGET_LIMIT   *)
(* is configured.                                                          *)
C26_GasBudgetWindow ==
    /\ spSubmitted.mode # "none" => InWindow(Num(spSubmitted.bytes.gasBudget))
    /\ \A i \in DOMAIN ySubmitted : InWindow(Num(ySubmitted[i].tx.gasBudget))

----------------------------------------------------------------------------
(* C28 as stated: withdraw adapter fail-fast.  When the position          *)
(* reference is missing, is tagged for another protocol than the selected *)
(* one, has an empty required identifier, or the protocol is Scallop off  *)
(* mainnet, the withdraw step throws and the transaction is left as it    *)
(* was, with no command appended.                                          *)
InvalidWithdraw(strategy, env) ==
    \/ strategy.positionRef = NoRef
    \/ strategy.positionRef.protocol # Normalize(strategy.selectedProtocol)
    \/ strategy.positionRef.id = ""
    \/ Normalize(strategy.selectedProtocol) = "scallop" /\ env.network # "mainnet"

C28_WithdrawFailFast ==
    (ySteps.withdraw # "none" /\ InvalidWithdraw(yStrategy, yEnv)) =>
        /\ ySteps.withdraw = "threw"
        /\ yTx = EmptyTx

----------------------------------------------------------------------------
(* C22 as stated: liveness of release.  With the executor running with a  *)
(* signing key and the registry unpaused, a Pending task whose execute_at *)
(* has passed is eventually submitted for execution, however many tasks   *)
(* were created after it.                                                  *)
DueAndServed(id) ==
    /\ exRunning
    /\ exReady.keypair
    /\ ~registry.is_paused
    /\ id \in DOMAIN tasks
    /\ tasks[id].status = STATUS_PENDING
    /\ clock >= tasks[id].execute_at

Submitted(id) == exLast.task = id /\ exLast.outcome # "none"

C22_EventuallySubmitted == DueAndServed(1) ~> Submitted(1)

====
